---- MODULE Spec2Model ----
(***************************************************************************)
(* Metal Portal: authentication service (services/auth.ts over the Prisma  *)
(* User table), the client auth store (store/authStore.ts) and the         *)
(* role/permission resolver (utils/index.ts, utils/auth.ts).         *)
(***************************************************************************)
EXTENDS Integers, Sequences, FiniteSets, Bags, TLC

NULL == [null |-> TRUE]

---------------------------------------------------------------------------
(* Bounds of the model. *)

\* AuthService calls made one after the other in one behaviour.
MaxCalls == 4
\* AuthService calls made in one behaviour when calls may overlap.
MaxConcurrentCalls == 2
\* AuthService calls made in one behaviour of the client store.
MaxStoreCalls == 1
\* AuthService calls made in one behaviour of the refresh path.
MaxRefreshCalls == 2
\* AuthService calls made in one behaviour under each configuration of the secrets.
MaxSecretCalls == 2
\* AuthService calls made in one behaviour of the password candidates.
MaxPasswordCalls == 3
\* Asynchronous store operations in flight at the same time.
MaxOps == 2
\* Rows the User table can hold.
MaxUsers == 2
\* Times the clock may advance in one behaviour.
MaxTicks == 1
\* Database operations that may throw in one behaviour.
MaxFaults == 1
MaxNotifications == 2
MaxClock == 2
MaxUnread == 2
MaxUserOps == 2

---------------------------------------------------------------------------
(* AuthService configuration. *)

ACCESS_TOKEN_EXPIRY == [value |-> 15, unit |-> "m"]
REFRESH_TOKEN_EXPIRY == [value |-> 7, unit |-> "d"]
SALT_ROUNDS == 12
DEFAULT_JWT_SECRET == "your-secret-key"
DEFAULT_REFRESH_SECRET == "your-refresh-secret"

\* process.env.X || fallback: an unset or empty variable gives the fallback.
EnvOr(variable, fallback) ==
    IF ~variable.defined \/ variable.value = "" THEN fallback ELSE variable.value

\* A variable of process.env: unset, set to the empty string, or set.
EnvValues ==
    {[defined |-> FALSE, value |-> ""], [defined |-> TRUE, value |-> ""],
     [defined |-> TRUE, value |-> "deployment-secret"]}

\* The values process.env holds for JWT_SECRET and REFRESH_SECRET.
ProcessEnv == [JWT_SECRET : EnvValues, REFRESH_SECRET : EnvValues]

\* parseExpiryToSeconds: /(\d+)([smhd])/ with the multipliers table.
parseExpiryToSeconds(expiry) ==
    IF expiry.unit \notin {"s", "m", "h", "d"} THEN 900
    ELSE expiry.value * (CASE expiry.unit = "s" -> 1
                           [] expiry.unit = "m" -> 60
                           [] expiry.unit = "h" -> 3600
                           [] expiry.unit = "d" -> 86400)

---------------------------------------------------------------------------
(* Inputs. *)

\* Strings offered as email, username or login identifier ("" is the empty string).
Str == {"a", "b"}
\* A password is the sequence of its characters.
Passwords == {<<"p">>, <<"q">>}

\* RegisterData: records that collide on both fields, on the email only, on the
\* username only, or not at all (the email of one being the username of the
\* other), and one record per missing field.
RegisterInputs ==
    {[email |-> "a", username |-> "a", password |-> <<"p">>],
     [email |-> "a", username |-> "b", password |-> <<"q">>],
     [email |-> "b", username |-> "a", password |-> <<"p">>]}
      \cup {[email |-> "", username |-> "a", password |-> <<"p">>],
            [email |-> "a", username |-> "", password |-> <<"p">>],
            [email |-> "a", username |-> "a", password |-> << >>]}

LoginInputs == [identifier : Str, password : Passwords]

\* The characters of the emails and usernames given to register below.
Spelling(string) ==
    CASE string = "f@x.io" -> <<"f", "@", "x", ".", "i", "o">>
      [] string = "f.x.io" -> <<"f", ".", "x", ".", "i", "o">>
      [] string = "f @x.io" -> <<"f", " ", "@", "x", ".", "i", "o">>
      [] string = "fan_1" -> <<"f", "a", "n", "_", "1">>
      [] string = "fa" -> <<"f", "a">>
      [] string = "fan-1" -> <<"f", "a", "n", "-", "1">>

\* Registrations with well-formed and with malformed fields.
PolicyRegisterInputs ==
    [email : {"f@x.io", "f.x.io", "f @x.io"},
     username : {"fan_1", "fa", "fan-1"},
     password : {<<"S", "t", "r", "0", "n", "g", "P", "@">>,
                 <<"w", "e", "a", "k">>,
                 <<"s", "t", "r", "0", "n", "g", "p", "@">>,
                 <<"S", "t", "r", "o", "n", "g", "P", "a">>}]

\* A password one character longer than what bcrypt reads.
LongPassword(last) == [n \in 1..73 |-> IF n <= 72 THEN "x" ELSE last]

\* Registrations of one identity, and login candidates for it: the password
\* itself, case and whitespace variants of it, passwords that differ in the last
\* character only, and an identifier no identity has.
PasswordRegisterInputs ==
    {[email |-> "a", username |-> "b", password |-> pw] :
       pw \in {<<"p">>, LongPassword("y")}}

PasswordCandidates ==
    {<<"p">>, <<"P">>, <<"p", " ">>, <<" ", "p">>, LongPassword("y"), LongPassword("z")}

PasswordLoginInputs == [identifier : {"a", "b", "c"}, password : PasswordCandidates]

UserIds == 1..MaxUsers

---------------------------------------------------------------------------
VARIABLES
    db,               \* the User table: a sequence of rows, id = position
    now,              \* the clock, in seconds
    env,              \* the signing secrets of the AuthService instance
    calls,            \* the AuthService calls made so far, in call order
    faults,           \* database operations that have thrown
    store,            \* the state of useAuthStore
    persisted,        \* the 'auth-store' record in secure storage (NULL: absent)
    ops,              \* asynchronous store operations in flight
    query,            \* the arguments of a permission check
    answer,           \* its result (NULL: not yet asked)
    api,              \* the ApiClient.request call in progress
    notificationStore, \* the state of useNotificationStore
    userStore,        \* the state of useUserStore
    userPersisted,    \* the 'user-store' record in secure storage (NULL: absent)
    userOps           \* asynchronous user-store operations in flight

serverVars == <<db, now, env, calls, faults>>
storeVars == <<store, persisted, ops>>
permVars == <<query, answer>>
userVars == <<userStore, userPersisted, userOps>>
appVars == <<api, notificationStore, userStore, userPersisted, userOps>>
vars == <<db, now, env, calls, faults, store, persisted, ops, query, answer,
          api, notificationStore, userStore, userPersisted, userOps>>

---------------------------------------------------------------------------
(* bcrypt and jsonwebtoken. *)

\* bcryptjs reads the first 72 bytes of its input and no more.
BCRYPT_MAX_INPUT == 72
bcryptInput(password) ==
    IF Len(password) > BCRYPT_MAX_INPUT
    THEN SubSeq(password, 1, BCRYPT_MAX_INPUT) ELSE password

\* bcrypt.hash(password, SALT_ROUNDS): a salted one-way hash; the model keeps
\* what compare can tell of it.
bcryptHash(password, rounds) == [hashOf |-> bcryptInput(password), cost |-> rounds]
bcryptCompare(password, hash) == hash.hashOf = bcryptInput(password)

\* jwt.sign(payload, secret, {expiresIn}): iat and exp are whole seconds; the
\* signature is a function of the payload and the secret.
jwtSign(payload, secret, expiry, t) ==
    [payload |-> payload, iat |-> t,
     exp |-> t + parseExpiryToSeconds(expiry), sig |-> secret]

\* jwt.verify(token, secret): the signature matches and the token is not expired.
jwtVerify(token, secret, t) == token.sig = secret /\ t < token.exp

generateAccessToken(user, t) ==
    jwtSign([sub |-> user.id, email |-> user.email, username |-> user.username,
             role |-> user.role, tier |-> user.subscriptionTier],
            env.JWT_SECRET, ACCESS_TOKEN_EXPIRY, t)

generateRefreshToken(user, t) ==
    jwtSign([sub |-> user.id, type |-> "refresh"],
            env.REFRESH_SECRET, REFRESH_TOKEN_EXPIRY, t)

generateTokens(user, t) ==
    [accessToken |-> generateAccessToken(user, t),
     refreshToken |-> generateRefreshToken(user, t)]

---------------------------------------------------------------------------
(* The User table. *)

\* model User: defaults of the schema for a created row.
NewUser(id, data, t) ==
    [id |-> id, email |-> data.email, username |-> data.username,
     passwordHash |-> bcryptHash(data.password, SALT_ROUNDS),
     role |-> "FAN", subscriptionTier |-> "FREE",
     refreshToken |-> NULL, lastActiveAt |-> t,
     writtenBy |-> 0]   \* not a column: the call that last wrote refreshToken

\* A User table without the unique indexes.
NoUniqueIndex(data) == FALSE

\* @unique on email and on username.
UniqueViolation(data) ==
    \E k \in 1..Len(db) : db[k].email = data.email \/ db[k].username = data.username

\* findFirst({ where: { OR: [{email}, {username}] } })
FindByEmailOrUsername(email, username) ==
    {k \in 1..Len(db) : db[k].email = email \/ db[k].username = username}

\* findFirst({ where: { id, refreshToken } })
FindByIdAndRefreshToken(id, token) ==
    {k \in 1..Len(db) : db[k].id = id /\ db[k].refreshToken = token}

---------------------------------------------------------------------------
(* REGEX: the patterns of the validation utilities. *)

LowerCase == {"a", "b", "c", "d", "e", "f", "g", "h", "i", "j", "k", "l", "m",
              "n", "o", "p", "q", "r", "s", "t", "u", "v", "w", "x", "y", "z"}
UpperCase == {"A", "B", "C", "D", "E", "F", "G", "H", "I", "J", "K", "L", "M",
              "N", "O", "P", "Q", "R", "S", "T", "U", "V", "W", "X", "Y", "Z"}
Digit == {"0", "1", "2", "3", "4", "5", "6", "7", "8", "9"}
PasswordSymbol == {"@", "$", "!", "%", "*", "?", "&"}
WhiteSpace == {" "}

AllIn(chars, from, to, class) == \A n \in from..to : chars[n] \in class
NoneIn(chars, from, to, class) == \A n \in from..to : chars[n] \notin class

\* /^[^\s@]+@[^\s@]+\.[^\s@]+$/
REGEX_EMAIL(chars) ==
    \E at \in 1..Len(chars) : \E dot \in 1..Len(chars) :
      /\ chars[at] = "@" /\ chars[dot] = "."
      /\ 1 < at /\ at + 1 < dot /\ dot < Len(chars)
      /\ NoneIn(chars, 1, at - 1, WhiteSpace \cup {"@"})
      /\ NoneIn(chars, at + 1, dot - 1, WhiteSpace \cup {"@"})
      /\ NoneIn(chars, dot + 1, Len(chars), WhiteSpace \cup {"@"})

\* /^(?=.*[a-z])(?=.*[A-Z])(?=.*\d)(?=.*[@$!%*?&])[A-Za-z\d@$!%*?&]{8,}$/
REGEX_PASSWORD(chars) ==
    /\ \E n \in 1..Len(chars) : chars[n] \in LowerCase
    /\ \E n \in 1..Len(chars) : chars[n] \in UpperCase
    /\ \E n \in 1..Len(chars) : chars[n] \in Digit
    /\ \E n \in 1..Len(chars) : chars[n] \in PasswordSymbol
    /\ AllIn(chars, 1, Len(chars), LowerCase \cup UpperCase \cup Digit \cup PasswordSymbol)
    /\ Len(chars) >= 8

\* /^[a-zA-Z0-9_]{3,20}$/
REGEX_USERNAME(chars) ==
    /\ AllIn(chars, 1, Len(chars), LowerCase \cup UpperCase \cup Digit \cup {"_"})
    /\ Len(chars) >= 3 /\ Len(chars) <= 20

---------------------------------------------------------------------------
(* useAuthStore: the client session. *)

initialState ==
    [user |-> NULL, tokens |-> NULL, isAuthenticated |-> FALSE,
     isLoading |-> FALSE, error |-> NULL, biometricEnabled |-> FALSE]

\* persist options: the fields written to the 'auth-store' record.
partialize(state) ==
    [user |-> state.user, tokens |-> state.tokens,
     isAuthenticated |-> state.isAuthenticated,
     biometricEnabled |-> state.biometricEnabled]

Merge(patch, state) ==
    [f \in DOMAIN state |-> IF f \in DOMAIN patch THEN patch[f] ELSE state[f]]

\* secureStorage.setItem: the write is made, or it throws and the catch block
\* drops the error.
secureStorageSetItem(value) ==
    \/ /\ persisted' = value
       /\ faults' = faults
    \/ /\ faults < MaxFaults
       /\ faults' = faults + 1
       /\ persisted' = persisted

\* set(patch) of the persisted store: merge, then write the partialized state.
Set(patch) ==
    /\ store' = Merge(patch, store)
    /\ secureStorageSetItem(partialize(Merge(patch, store)))

\* credentials.email.split('@')[0]
SplitAt0(email) == email.local

mockTokens ==
    [accessToken |-> "mock-access-token", refreshToken |-> "mock-refresh-token",
     expiresIn |-> 900]

LoginMockUser(credentials) ==
    [id |-> "1", email |-> credentials.email,
     username |-> SplitAt0(credentials.email), displayName |-> "Test User",
     role |-> "FAN", subscriptionTier |-> "FREE", subscriptionStatus |-> "ACTIVE",
     isVerified |-> FALSE, createdAt |-> now, updatedAt |-> now]

RegisterMockUser(credentials) ==
    [id |-> "1", email |-> credentials.email, username |-> credentials.username,
     displayName |-> IF credentials.displayName \in {NULL, ""}
                     THEN credentials.username ELSE credentials.displayName,
     role |-> "FAN", subscriptionTier |-> "FREE", subscriptionStatus |-> "ACTIVE",
     isVerified |-> FALSE, createdAt |-> now, updatedAt |-> now]

\* Inputs of the store's actions.
ClientEmail == [local |-> "a", domain |-> "x.com"]
ClientLoginInputs == {[email |-> ClientEmail, password |-> "p"]}
ClientRegisterInputs ==
    {[email |-> ClientEmail, username |-> "ax", password |-> "p", displayName |-> NULL]}
SetTokensInputs ==
    {NULL,
     [accessToken |-> "other-access-token", refreshToken |-> "other-refresh-token",
      expiresIn |-> 900],
     [accessToken |-> "other-access-token", refreshToken |-> "", expiresIn |-> 900]}
SetUserInputs == {NULL, LoginMockUser([email |-> ClientEmail])}

\* The backend calls the store's actions are to make (authAPI.login, .register,
\* .logout, .refreshToken): each is awaited and either resolves or rejects.
authAPIOutcomes == {"resolved", "rejected"}
authAPIError == [message |-> "Network request failed"]

\* An asynchronous action of the store that is awaiting its backend call:
\* arg is what it read before the await and uses after it, outcome is how the
\* awaited call will settle.  logoutSince is kept for refreshToken only, and is
\* not a value of the program: "called" when logout was called after it read
\* the tokens, "finished" when such a logout has cleared the session and no
\* login or register has installed one since.
NewOp(op, origin, arg, outcome) ==
    [op |-> op, origin |-> origin, arg |-> arg, outcome |-> outcome,
     logoutSince |-> "none"]

OpsInFlight == BagToSet(ops)
Without(o) == ops (-) SetToBag({o})

Mark(bag, from, to) ==
    LET mark(o) == IF o.op = "refresh" /\ o.logoutSince \in from
                   THEN [o EXCEPT !.logoutSince = to] ELSE o
        sum[S \in SUBSET BagToSet(bag)] ==
            IF S = {} THEN EmptyBag
            ELSE LET o == CHOOSE x \in S : TRUE
                 IN sum[S \ {o}] (+) [x \in {mark(o)} |-> bag[o]]
    IN sum[BagToSet(bag)]

\* login, up to the await of the backend call.
ClientLoginStart ==
    /\ BagCardinality(ops) < MaxOps
    /\ \E credentials \in ClientLoginInputs, outcome \in authAPIOutcomes :
         ops' = ops (+) SetToBag({NewOp("login", "login", credentials, outcome)})
    /\ Set([isLoading |-> TRUE, error |-> NULL])
    /\ UNCHANGED <<db, now, env, calls, permVars, appVars>>

\* login, after the await: the session is installed, or the catch block runs.
ClientLoginFinish(o) ==
    /\ o.op = "login"
    /\ IF o.outcome = "resolved"
       THEN /\ Set([user |-> LoginMockUser(o.arg), tokens |-> mockTokens,
                    isAuthenticated |-> TRUE, isLoading |-> FALSE])
            /\ ops' = Mark(Without(o), {"finished"}, "none")
       ELSE /\ Set([error |-> authAPIError, isLoading |-> FALSE])
            /\ ops' = Without(o)
    /\ UNCHANGED <<db, now, env, calls, permVars, appVars>>

ClientRegisterStart ==
    /\ BagCardinality(ops) < MaxOps
    /\ \E credentials \in ClientRegisterInputs, outcome \in authAPIOutcomes :
         ops' = ops (+) SetToBag({NewOp("register", "register", credentials, outcome)})
    /\ Set([isLoading |-> TRUE, error |-> NULL])
    /\ UNCHANGED <<db, now, env, calls, permVars, appVars>>

ClientRegisterFinish(o) ==
    /\ o.op = "register"
    /\ IF o.outcome = "resolved"
       THEN /\ Set([user |-> RegisterMockUser(o.arg), tokens |-> mockTokens,
                    isAuthenticated |-> TRUE, isLoading |-> FALSE])
            /\ ops' = Mark(Without(o), {"finished"}, "none")
       ELSE /\ Set([error |-> authAPIError, isLoading |-> FALSE])
            /\ ops' = Without(o)
    /\ UNCHANGED <<db, now, env, calls, permVars, appVars>>

\* logout, up to the await of the backend call; rest is the operations that
\* stay in flight.
LogoutBegin(origin, rest) ==
    /\ Set([isLoading |-> TRUE])
    /\ \E outcome \in authAPIOutcomes :
         ops' = Mark(rest, {"none"}, "called")
                  (+) SetToBag({NewOp("logout", origin, NULL, outcome)})

ClientLogoutStart ==
    /\ BagCardinality(ops) < MaxOps
    /\ LogoutBegin("logout", ops)
    /\ UNCHANGED <<db, now, env, calls, permVars, appVars>>

\* logout, after the await: the try block and the catch block clear alike.
ClientLogoutFinish(o) ==
    /\ o.op = "logout"
    /\ Set([user |-> NULL, tokens |-> NULL, isAuthenticated |-> FALSE,
            isLoading |-> FALSE, error |-> NULL])
    /\ ops' = Mark(Without(o), {"called"}, "finished")
    /\ UNCHANGED <<db, now, env, calls, permVars, appVars>>

\* refreshToken, up to the await: read the tokens, return if there is no
\* refresh token.
RefreshBegin(origin) ==
    /\ IF store.tokens = NULL \/ store.tokens.refreshToken = ""
       THEN ops' = ops
       ELSE /\ BagCardinality(ops) < MaxOps
            /\ \E outcome \in authAPIOutcomes :
                 ops' = ops (+) SetToBag({NewOp("refresh", origin,
                                                store.tokens.refreshToken, outcome)})
    /\ UNCHANGED <<store, persisted, serverVars, permVars>>

\* A catch block that swallows the error without logging out.
RefreshCatchSwallows(o) ==
    /\ ops' = Without(o)
    /\ UNCHANGED <<store, persisted, faults>>

\* refreshToken, the catch block: get().logout().
RefreshCatch(o) == LogoutBegin("refreshToken", Without(o))

\* A refresh that installs a rotated refresh token with the new access token.
RefreshInstallRotated(o) ==
    /\ Set([tokens |-> [accessToken |-> "new-mock-access-token",
                        refreshToken |-> "rotated-refresh-token",
                        expiresIn |-> 900]])
    /\ ops' = Without(o)

\* refreshToken, after the await: the new access token with the refresh token
\* read before the await.
RefreshInstall(o) ==
    /\ Set([tokens |-> [accessToken |-> "new-mock-access-token",
                        refreshToken |-> o.arg,
                        expiresIn |-> 900]])
    /\ ops' = Without(o)

ClientRefreshFinish(o) ==
    /\ o.op = "refresh"
    /\ IF o.outcome = "resolved" THEN RefreshInstall(o) ELSE RefreshCatch(o)
    /\ UNCHANGED <<db, now, env, calls, permVars, appVars>>

\* The callers of the store's refreshToken().
ClientRefreshStart == RefreshBegin("refreshToken") /\ UNCHANGED appVars
\* api.ts handleAuthErrors on a 401 response.
HandleAuthErrors401 == RefreshBegin("refreshToken") /\ UNCHANGED appVars
\* queryClient.ts mutations.onError on a 401 error.
MutationOnError401 == RefreshBegin("refreshToken") /\ UNCHANGED appVars
\* queryClient.ts handleQueryError on a 401 error.
HandleQueryError401 == RefreshBegin("refreshToken") /\ UNCHANGED appVars

SetUser ==
    /\ \E u \in SetUserInputs : Set([user |-> u])
    /\ UNCHANGED <<ops, db, now, env, calls, permVars, appVars>>

\* A setTokens that also marks the store authenticated.
SetTokensAuthenticating ==
    /\ \E t \in SetTokensInputs : Set([tokens |-> t, isAuthenticated |-> t # NULL])
    /\ UNCHANGED <<ops, db, now, env, calls, permVars, appVars>>

SetTokens ==
    /\ \E t \in SetTokensInputs : Set([tokens |-> t])
    /\ UNCHANGED <<ops, db, now, env, calls, permVars, appVars>>

ClearError ==
    /\ Set([error |-> NULL])
    /\ UNCHANGED <<ops, db, now, env, calls, permVars, appVars>>

\* resetPassword, confirmResetPassword and changePassword, up to the await of
\* the backend call.
AwaitingStart(name) ==
    /\ BagCardinality(ops) < MaxOps
    /\ \E outcome \in authAPIOutcomes :
         ops' = ops (+) SetToBag({NewOp(name, name, NULL, outcome)})
    /\ Set([isLoading |-> TRUE, error |-> NULL])
    /\ UNCHANGED <<db, now, env, calls, permVars, appVars>>

ResetPasswordStart == AwaitingStart("resetPassword")
ConfirmResetPasswordStart == AwaitingStart("confirmResetPassword")
ChangePasswordStart == AwaitingStart("changePassword")

\* The same three, after the await.
AwaitingFinish(o) ==
    /\ o.op \in {"resetPassword", "confirmResetPassword", "changePassword"}
    /\ IF o.outcome = "resolved"
       THEN Set([isLoading |-> FALSE])
       ELSE Set([error |-> authAPIError, isLoading |-> FALSE])
    /\ ops' = Without(o)
    /\ UNCHANGED <<db, now, env, calls, permVars, appVars>>

EnableBiometric ==
    /\ Set([biometricEnabled |-> TRUE])
    /\ UNCHANGED <<ops, db, now, env, calls, permVars, appVars>>

DisableBiometric ==
    /\ Set([biometricEnabled |-> FALSE])
    /\ UNCHANGED <<ops, db, now, env, calls, permVars, appVars>>

\* biometricLogin: set({ isLoading: true, error: null }), then
\* set({ isLoading: false }), with nothing awaited in between.
BiometricLogin ==
    /\ Set([isLoading |-> FALSE, error |-> NULL])
    /\ UNCHANGED <<ops, db, now, env, calls, permVars, appVars>>

SetLoading ==
    /\ \E loading \in BOOLEAN : Set([isLoading |-> loading])
    /\ UNCHANGED <<ops, db, now, env, calls, permVars, appVars>>

SetErrorInputs == {NULL, [message |-> "Something went wrong"]}

SetError ==
    /\ \E error \in SetErrorInputs : Set([error |-> error])
    /\ UNCHANGED <<ops, db, now, env, calls, permVars, appVars>>

UpdateUserRoleInputs == {"ADMIN"}

UpdateUserRole ==
    /\ \E role \in UpdateUserRoleInputs :
         IF store.user # NULL
         THEN Set([user |-> [store.user EXCEPT !.role = role]])
         ELSE UNCHANGED <<store, persisted, faults>>
    /\ UNCHANGED <<ops, db, now, env, calls, permVars, appVars>>

UpdateSubscriptionInputs == {[tier |-> "VIP", status |-> "CANCELLED"]}

UpdateSubscription ==
    /\ \E sub \in UpdateSubscriptionInputs :
         IF store.user # NULL
         THEN Set([user |-> [store.user EXCEPT !.subscriptionTier = sub.tier,
                                              !.subscriptionStatus = sub.status]])
         ELSE UNCHANGED <<store, persisted, faults>>
    /\ UNCHANGED <<ops, db, now, env, calls, permVars, appVars>>

\* A process restart: the store is created again and rehydrated from the
\* 'auth-store' record; what was in flight is gone.
Rehydrate ==
    /\ store' = IF persisted = NULL THEN initialState
                ELSE Merge(persisted, initialState)
    /\ ops' = EmptyBag
    /\ UNCHANGED <<persisted, serverVars, permVars, appVars>>

---------------------------------------------------------------------------
(* AuthService calls. *)

Pending(i) == calls[i].result = "pending"
PendingCalls == {i \in 1..Len(calls) : Pending(i)}
DoneCalls == {i \in 1..Len(calls) : ~Pending(i)}

\* The stored refresh token of every row.
StoredTokens == [k \in 1..Len(db) |-> db[k].refreshToken]

\* before is not a value of the program: the stored refresh tokens when the
\* call was made, kept while the call is in progress.
NewCall(kind, data, pc) ==
    [kind |-> kind, data |-> data, pc |-> pc, uid |-> 0,
     tokens |-> NULL, result |-> "pending", error |-> "", ret |-> NULL,
     doneBefore |-> DoneCalls, before |-> StoredTokens]

\* A call that threw: the record keeps the kind and the error, and the
\* credentials of a login.
Failed(kind, msg) ==
    [kind |-> kind, data |-> NULL, pc |-> "done", uid |-> 0,
     tokens |-> NULL, result |-> "err", error |-> msg, ret |-> NULL,
     doneBefore |-> {}, before |-> << >>]

Fail(i, msg) ==
    [calls EXCEPT ![i] = [Failed(calls[i].kind, msg) EXCEPT
                            !.data = IF calls[i].kind = "login"
                                     THEN calls[i].data ELSE NULL]]

\* A client that awaits each call, and clients that do not.
CanCallInTurn == Len(calls) < MaxCalls /\ PendingCalls = {}
CanCallConcurrently == Len(calls) < MaxConcurrentCalls

\* The tokens handed out so far: what a client can present.
IssuedTokens ==
    UNION {IF calls[i].result = "ok" /\ calls[i].kind \in {"register", "login"}
             THEN {calls[i].ret.accessToken, calls[i].ret.refreshToken}
           ELSE IF calls[i].result = "ok" /\ calls[i].kind = "refresh"
             THEN {calls[i].ret.accessToken}
           ELSE {} : i \in 1..Len(calls)}

\* register, up to the first await: the required-field check.
InvokeRegisterWith(canCall, inputs) ==
    /\ canCall
    /\ \E data \in inputs :
         IF data.email = "" \/ data.password = << >> \/ data.username = ""
         THEN calls' = Append(calls,
                  Failed("register", "Registration failed: Email, username, and password are required"))
         ELSE calls' = Append(calls, NewCall("register", data, "find"))
    /\ UNCHANGED <<db, now, env, faults, storeVars, permVars, appVars>>

InvokeRegister(canCall) == InvokeRegisterWith(canCall, RegisterInputs)

\* register: findFirst for an existing user.
RegisterFind(i) ==
    /\ Pending(i) /\ calls[i].kind = "register" /\ calls[i].pc = "find"
    /\ IF FindByEmailOrUsername(calls[i].data.email, calls[i].data.username) # {}
       THEN calls' = Fail(i, "Registration failed: User with this email or username already exists")
       ELSE calls' = [calls EXCEPT ![i].pc = "create"]
    /\ UNCHANGED <<db, now, env, faults, storeVars, permVars, appVars>>

\* register: bcrypt.hash and prisma.user.create.
RegisterCreate(i) ==
    /\ Pending(i) /\ calls[i].kind = "register" /\ calls[i].pc = "create"
    /\ IF UniqueViolation(calls[i].data)
       THEN /\ calls' = Fail(i, "Registration failed: Unique constraint failed")
            /\ db' = db
       ELSE /\ Len(db) < MaxUsers
            /\ db' = Append(db, NewUser(Len(db) + 1, calls[i].data, now))
            /\ calls' = [calls EXCEPT ![i].pc = "store", ![i].uid = Len(db) + 1]
    /\ UNCHANGED <<now, env, faults, storeVars, permVars, appVars>>

\* A login that tells an unknown identifier from a wrong password.
LoginFindTellsUnknownUser(i) ==
    /\ Pending(i) /\ calls[i].kind = "login" /\ calls[i].pc = "find"
    /\ LET found == FindByEmailOrUsername(calls[i].data.identifier, calls[i].data.identifier)
       IN IF found = {}
          THEN calls' = Fail(i, "Login failed: User not found")
          ELSE \E k \in found :
                 IF ~bcryptCompare(calls[i].data.password, db[k].passwordHash)
                 THEN calls' = Fail(i, "Login failed: Invalid credentials")
                 ELSE calls' = [calls EXCEPT ![i].pc = "store", ![i].uid = k]
    /\ UNCHANGED <<db, now, env, faults, storeVars, permVars, appVars>>

\* login: findFirst by identifier, then bcrypt.compare.
LoginFind(i) ==
    /\ Pending(i) /\ calls[i].kind = "login" /\ calls[i].pc = "find"
    /\ LET found == FindByEmailOrUsername(calls[i].data.identifier, calls[i].data.identifier)
       IN IF found = {}
          THEN calls' = Fail(i, "Login failed: Invalid credentials")
          ELSE \E k \in found :
                 IF ~bcryptCompare(calls[i].data.password, db[k].passwordHash)
                 THEN calls' = Fail(i, "Login failed: Invalid credentials")
                 ELSE calls' = [calls EXCEPT ![i].pc = "store", ![i].uid = k]
    /\ UNCHANGED <<db, now, env, faults, storeVars, permVars, appVars>>

InvokeLoginWith(canCall, inputs) ==
    /\ canCall
    /\ \E cred \in inputs : calls' = Append(calls, NewCall("login", cred, "find"))
    /\ UNCHANGED <<db, now, env, faults, storeVars, permVars, appVars>>

InvokeLogin(canCall) == InvokeLoginWith(canCall, LoginInputs)

\* An update of the refresh token without the where clause.
StoreRefreshTokenOfEveryUser(i) ==
    /\ Pending(i) /\ calls[i].kind \in {"register", "login"} /\ calls[i].pc = "store"
    /\ LET t == generateTokens(db[calls[i].uid], now)
       IN /\ db' = [k \in 1..Len(db) |->
                      [db[k] EXCEPT !.refreshToken = t.refreshToken, !.writtenBy = i]]
          /\ calls' = [calls EXCEPT ![i].pc = "touch", ![i].tokens = t]
    /\ UNCHANGED <<now, env, faults, storeVars, permVars, appVars>>

\* register and login: generateTokens, then storeRefreshToken.
StoreRefreshToken(i) ==
    /\ Pending(i) /\ calls[i].kind \in {"register", "login"} /\ calls[i].pc = "store"
    /\ LET t == generateTokens(db[calls[i].uid], now)
       IN /\ db' = [db EXCEPT ![calls[i].uid].refreshToken = t.refreshToken,
                              ![calls[i].uid].writtenBy = i]
          /\ calls' = [calls EXCEPT ![i].pc = "touch", ![i].tokens = t]
    /\ UNCHANGED <<now, env, faults, storeVars, permVars, appVars>>

\* refreshToken, up to the first await: jwt.verify with REFRESH_SECRET.
InvokeRefresh(canCall) ==
    /\ canCall
    /\ \E token \in IssuedTokens :
         IF jwtVerify(token, env.REFRESH_SECRET, now)
         THEN calls' = Append(calls, NewCall("refresh", token, "find"))
         ELSE calls' = Append(calls,
                  Failed("refresh", "Token refresh failed: jwt invalid or expired"))
    /\ UNCHANGED <<db, now, env, faults, storeVars, permVars, appVars>>

\* refreshToken: findFirst by id and stored refresh token, then generateAccessToken.
RefreshFind(i) ==
    /\ Pending(i) /\ calls[i].kind = "refresh" /\ calls[i].pc = "find"
    /\ LET found == FindByIdAndRefreshToken(calls[i].data.payload.sub, calls[i].data)
       IN IF found = {}
          THEN calls' = Fail(i, "Token refresh failed: Invalid refresh token")
          ELSE \E k \in found :
                 calls' = [calls EXCEPT ![i].pc = "touch", ![i].uid = k,
                              ![i].tokens = [accessToken |-> generateAccessToken(db[k], now)]]
    /\ UNCHANGED <<db, now, env, faults, storeVars, permVars, appVars>>

\* register, login and refreshToken: update lastActiveAt, then return.
UpdateLastActive(i) ==
    /\ Pending(i) /\ calls[i].pc = "touch"
    /\ db' = [db EXCEPT ![calls[i].uid].lastActiveAt = now]
    /\ calls' = [calls EXCEPT
                   ![i].pc = "done", ![i].result = "ok", ![i].tokens = NULL,
                   ![i].before = << >>,
                   ![i].ret = IF calls[i].kind = "refresh"
                              THEN [accessToken |-> calls[i].tokens.accessToken,
                                    expiresIn |-> parseExpiryToSeconds(ACCESS_TOKEN_EXPIRY)]
                              ELSE [user |-> calls[i].uid,
                                    accessToken |-> calls[i].tokens.accessToken,
                                    refreshToken |-> calls[i].tokens.refreshToken,
                                    expiresIn |-> parseExpiryToSeconds(ACCESS_TOKEN_EXPIRY)]]
    /\ UNCHANGED <<now, env, faults, storeVars, permVars, appVars>>

InvokeLogout(canCall) ==
    /\ canCall
    /\ \E userId \in UserIds : calls' = Append(calls, NewCall("logout", [userId |-> userId], "update"))
    /\ UNCHANGED <<db, now, env, faults, storeVars, permVars, appVars>>

\* logout: update refreshToken to null (throws when no row has the id).
LogoutUpdate(i) ==
    /\ Pending(i) /\ calls[i].kind = "logout" /\ calls[i].pc = "update"
    /\ IF calls[i].data.userId \in 1..Len(db)
       THEN /\ db' = [db EXCEPT ![calls[i].data.userId].refreshToken = NULL,
                                ![calls[i].data.userId].writtenBy = i]
            /\ calls' = [calls EXCEPT ![i].pc = "done", ![i].result = "ok",
                                      ![i].before = << >>]
            /\ BagCardinality(ops) < MaxOps
            /\ LogoutBegin("AuthService.logout", ops)
       ELSE /\ db' = db
            /\ calls' = Fail(i, "Logout failed: Record to update not found")
            /\ UNCHANGED <<storeVars, faults>>
    /\ UNCHANGED <<now, env, permVars, appVars>>

\* verifyAccessToken: jwt.verify with JWT_SECRET, the decoded payload returned.
InvokeVerifyAccessToken(canCall) ==
    /\ canCall
    /\ \E token \in IssuedTokens :
         IF jwtVerify(token, env.JWT_SECRET, now)
         THEN calls' = Append(calls,
                  [NewCall("verifyAccessToken", token, "done") EXCEPT
                     !.result = "ok", !.ret = token.payload, !.before = << >>])
         ELSE calls' = Append(calls,
                  Failed("verifyAccessToken", "Invalid or expired token"))
    /\ UNCHANGED <<db, now, env, faults, storeVars, permVars, appVars>>

\* Any awaited prisma operation may throw; the catch block rethrows.
DbFault(i) ==
    /\ Pending(i)
    /\ faults < MaxFaults
    /\ faults' = faults + 1
    /\ calls' = Fail(i, "database error")
    /\ UNCHANGED <<db, now, env, storeVars, permVars, appVars>>

\* Time passes: one second, or a whole refresh-token lifetime.
Ticks(t) ==
    (t \div parseExpiryToSeconds(REFRESH_TOKEN_EXPIRY))
      + (t % parseExpiryToSeconds(REFRESH_TOKEN_EXPIRY))

Tick ==
    /\ Ticks(now) < MaxTicks
    /\ \E d \in {1, parseExpiryToSeconds(REFRESH_TOKEN_EXPIRY)} : now' = now + d
    /\ UNCHANGED <<db, env, calls, faults, storeVars, permVars, appVars>>

---------------------------------------------------------------------------
(* The role/permission resolver: utils/index.ts and utils/auth.ts. *)

UserRole == {"GUEST", "FAN", "PREMIUM_FAN", "VIP_FAN", "MODERATOR", "BAND_MEMBER", "ADMIN"}

Permission ==
    {"READ_POSTS", "CREATE_POSTS", "EDIT_POSTS", "DELETE_POSTS",
     "READ_COMMENTS", "CREATE_COMMENTS", "EDIT_COMMENTS", "DELETE_COMMENTS",
     "READ_FORUM", "CREATE_FORUM_POSTS", "MODERATE_FORUM",
     "READ_CHAT", "SEND_MESSAGES", "CREATE_CHAT_ROOMS", "MODERATE_CHAT",
     "ACCESS_PREMIUM_CONTENT", "ACCESS_VIP_CONTENT",
     "MANAGE_USERS", "MANAGE_CONTENT", "VIEW_ANALYTICS", "SYSTEM_ADMIN"}

ROLE_PERMISSIONS ==
    [r \in UserRole |->
      CASE r = "GUEST" ->
             <<"READ_POSTS", "READ_COMMENTS", "READ_FORUM">>
        [] r = "FAN" ->
             <<"READ_POSTS", "CREATE_COMMENTS", "READ_COMMENTS", "EDIT_COMMENTS",
               "READ_FORUM", "CREATE_FORUM_POSTS", "READ_CHAT", "SEND_MESSAGES">>
        [] r = "PREMIUM_FAN" ->
             <<"READ_POSTS", "CREATE_COMMENTS", "READ_COMMENTS", "EDIT_COMMENTS",
               "READ_FORUM", "CREATE_FORUM_POSTS", "READ_CHAT", "SEND_MESSAGES",
               "ACCESS_PREMIUM_CONTENT">>
        [] r = "VIP_FAN" ->
             <<"READ_POSTS", "CREATE_COMMENTS", "READ_COMMENTS", "EDIT_COMMENTS",
               "READ_FORUM", "CREATE_FORUM_POSTS", "READ_CHAT", "SEND_MESSAGES",
               "CREATE_CHAT_ROOMS", "ACCESS_PREMIUM_CONTENT", "ACCESS_VIP_CONTENT">>
        [] r = "MODERATOR" ->
             <<"READ_POSTS", "CREATE_COMMENTS", "READ_COMMENTS", "EDIT_COMMENTS",
               "DELETE_COMMENTS", "READ_FORUM", "CREATE_FORUM_POSTS", "MODERATE_FORUM",
               "READ_CHAT", "SEND_MESSAGES", "CREATE_CHAT_ROOMS", "MODERATE_CHAT",
               "ACCESS_PREMIUM_CONTENT", "ACCESS_VIP_CONTENT", "MANAGE_CONTENT">>
        [] r = "BAND_MEMBER" ->
             <<"READ_POSTS", "CREATE_POSTS", "EDIT_POSTS", "CREATE_COMMENTS",
               "READ_COMMENTS", "EDIT_COMMENTS", "DELETE_COMMENTS", "READ_FORUM",
               "CREATE_FORUM_POSTS", "MODERATE_FORUM", "READ_CHAT", "SEND_MESSAGES",
               "CREATE_CHAT_ROOMS", "MODERATE_CHAT", "ACCESS_PREMIUM_CONTENT",
               "ACCESS_VIP_CONTENT", "VIEW_ANALYTICS">>
        [] r = "ADMIN" ->
             <<"READ_POSTS", "CREATE_POSTS", "EDIT_POSTS", "DELETE_POSTS",
               "CREATE_COMMENTS", "READ_COMMENTS", "EDIT_COMMENTS", "DELETE_COMMENTS",
               "READ_FORUM", "CREATE_FORUM_POSTS", "MODERATE_FORUM", "READ_CHAT",
               "SEND_MESSAGES", "CREATE_CHAT_ROOMS", "MODERATE_CHAT",
               "ACCESS_PREMIUM_CONTENT", "ACCESS_VIP_CONTENT", "MANAGE_USERS",
               "MANAGE_CONTENT", "VIEW_ANALYTICS", "SYSTEM_ADMIN">>]

\* ROLE_PERMISSIONS[userRole] || []
getUserPermissions(userRole) ==
    IF userRole \in DOMAIN ROLE_PERMISSIONS THEN ROLE_PERMISSIONS[userRole] ELSE << >>

\* Array.prototype.includes
Includes(list, x) == \E n \in 1..Len(list) : list[n] = x

hasPermission(userRole, permission) ==
    Includes(getUserPermissions(userRole), permission)

\* hasRole's roleHierarchy.
roleHierarchy ==
    [r \in UserRole |->
      CASE r = "GUEST" -> 0 [] r = "FAN" -> 1 [] r = "PREMIUM_FAN" -> 2
        [] r = "VIP_FAN" -> 3 [] r = "MODERATOR" -> 4 [] r = "BAND_MEMBER" -> 5
        [] r = "ADMIN" -> 6]

hasRoleStrictly(userRole, requiredRole) ==
    roleHierarchy[userRole] > roleHierarchy[requiredRole]

hasRole(userRole, requiredRole) ==
    roleHierarchy[userRole] >= roleHierarchy[requiredRole]

SubscriptionTier == {"FREE", "PREMIUM", "VIP"}

tierHierarchy ==
    [t \in SubscriptionTier |->
      CASE t = "FREE" -> 0 [] t = "PREMIUM" -> 1 [] t = "VIP" -> 2]

hasSubscriptionTier(userTier, requiredTier) ==
    tierHierarchy[userTier] >= tierHierarchy[requiredTier]

\* The gates of the auth utilities.
canAccessPremiumContent(userRole, userTier) ==
    hasRole(userRole, "PREMIUM_FAN") \/ hasSubscriptionTier(userTier, "PREMIUM")

canAccessVIPContentOnBothAxes(userRole, userTier) ==
    hasRole(userRole, "VIP_FAN") /\ hasSubscriptionTier(userTier, "VIP")

canAccessVIPContent(userRole, userTier) ==
    hasRole(userRole, "VIP_FAN") \/ hasSubscriptionTier(userTier, "VIP")

canModerateContent(userRole) == hasRole(userRole, "MODERATOR")

canManageUsers_auth(userRole) == hasRole(userRole, "ADMIN")

\* Array.prototype.some and Array.prototype.every over hasPermission.
hasAnyPermissionInOrder(userRole, permissions) ==
    permissions # << >> /\ hasPermission(userRole, permissions[1])

hasAnyPermission(userRole, permissions) ==
    \E n \in 1..Len(permissions) : hasPermission(userRole, permissions[n])

hasAllPermissions(userRole, permissions) ==
    \A n \in 1..Len(permissions) : hasPermission(userRole, permissions[n])

\* The gates of the permissions utilities.
canAccessPremium(userRole, subscriptionTier) ==
    \/ hasPermission(userRole, "ACCESS_PREMIUM_CONTENT")
    \/ subscriptionTier = "PREMIUM"
    \/ subscriptionTier = "VIP"

canAccessVIPByRole(userRole, subscriptionTier) ==
    hasPermission(userRole, "ACCESS_VIP_CONTENT")

canAccessVIP(userRole, subscriptionTier) ==
    \/ hasPermission(userRole, "ACCESS_VIP_CONTENT")
    \/ subscriptionTier = "VIP"

canModerateManagingContent(userRole) ==
    hasPermission(userRole, "MANAGE_CONTENT")

canModerate(userRole) ==
    \/ hasPermission(userRole, "MODERATE_FORUM")
    \/ hasPermission(userRole, "MODERATE_CHAT")

canManageUsers_permissions(userRole) == hasPermission(userRole, "MANAGE_USERS")

Queries == [userRole : UserRole, otherRole : UserRole, permission : Permission]
NoQuery == [userRole |-> "GUEST", otherRole |-> "GUEST", permission |-> "READ_POSTS"]

\* getUserPermissions of the two roles of the query.
AskGetUserPermissions ==
    /\ answer = NULL
    /\ answer' = [fn |-> "getUserPermissions",
                  value |-> <<getUserPermissions(query.userRole),
                              getUserPermissions(query.otherRole)>>]
    /\ UNCHANGED <<query, serverVars, storeVars, appVars>>

\* Questions about ranks: two roles and two subscription tiers.
RankQueries ==
    [userRole : UserRole, requiredRole : UserRole,
     userTier : SubscriptionTier, requiredTier : SubscriptionTier]

AskHasRole ==
    /\ answer = NULL
    /\ answer' = [fn |-> "hasRole",
                  value |-> hasRole(query.userRole, query.requiredRole)]
    /\ UNCHANGED <<query, serverVars, storeVars, appVars>>

AskHasSubscriptionTier ==
    /\ answer = NULL
    /\ answer' = [fn |-> "hasSubscriptionTier",
                  value |-> hasSubscriptionTier(query.userTier, query.requiredTier)]
    /\ UNCHANGED <<query, serverVars, storeVars, appVars>>

\* Questions to the gates: a role, a tier, a permission and a list of them.
PermissionLists ==
    {<< >>, <<"READ_POSTS">>, <<"SYSTEM_ADMIN">>,
     <<"SYSTEM_ADMIN", "READ_POSTS">>, <<"MODERATE_FORUM", "MODERATE_CHAT">>,
     <<"MANAGE_USERS", "SYSTEM_ADMIN">>}

GateQueries ==
    [userRole : UserRole, userTier : SubscriptionTier,
     permission : Permission, permissions : PermissionLists]

Answer(fn, value) ==
    /\ answer = NULL
    /\ answer' = [fn |-> fn, value |-> value]
    /\ UNCHANGED <<query, serverVars, storeVars, appVars>>

AskCanAccessPremiumContent ==
    Answer("canAccessPremiumContent", canAccessPremiumContent(query.userRole, query.userTier))
AskCanAccessVIPContent ==
    Answer("canAccessVIPContent", canAccessVIPContent(query.userRole, query.userTier))
AskCanModerateContent ==
    Answer("canModerateContent", canModerateContent(query.userRole))
AskCanManageUsers_auth ==
    Answer("canManageUsers_auth", canManageUsers_auth(query.userRole))
AskHasAnyPermission ==
    Answer("hasAnyPermission", hasAnyPermission(query.userRole, query.permissions))
AskHasAllPermissions ==
    Answer("hasAllPermissions", hasAllPermissions(query.userRole, query.permissions))
AskCanAccessPremium ==
    Answer("canAccessPremium", canAccessPremium(query.userRole, query.userTier))
AskCanAccessVIP ==
    Answer("canAccessVIP", canAccessVIP(query.userRole, query.userTier))
AskCanModerate ==
    Answer("canModerate", canModerate(query.userRole))
AskCanManageUsers_permissions ==
    Answer("canManageUsers_permissions", canManageUsers_permissions(query.userRole))

AskHasPermission ==
    /\ answer = NULL
    /\ answer' = [fn |-> "hasPermission",
                  value |-> hasPermission(query.userRole, query.permission)]
    /\ UNCHANGED <<query, serverVars, storeVars, appVars>>

---------------------------------------------------------------------------
(* ApiClient.request. *)

API_CONFIG_retries == 3

\* RequestOptions, as far as request reads them.
RequestOptions ==
    [skipAuth : BOOLEAN, retries : {1, API_CONFIG_retries}, responseType : {"json", "text"}]

\* What one fetch can give: a rejection (network failure, timeout), or a
\* response with a status and a body that parses as JSON or does not.
FetchOutcomes ==
    {[status |-> 0, body |-> "none"]}
      \cup [status : {200, 401, 404, 503}, body : {"json", "malformed"}]

NoError == [message |-> "", statusCode |-> 0]

\* refreshedAt, refreshedTo and clientErrorAt are not values of the program:
\* the number of the fetch whose 401 response was followed by a successful
\* refresh, the access token that refresh installed, and the number of the
\* first fetch that was answered with a status of 400 to 499.
NoRequest ==
    [pc |-> "idle", options |-> NULL, authorization |-> NULL, attempt |-> 0,
     response |-> NULL, fetches |-> 0, sent |-> NULL, lastError |-> NoError,
     result |-> "none", refreshedAt |-> 0, refreshedTo |-> NULL, clientErrorAt |-> 0]

\* addAuthHeaders: the access token of the store, if there is one.
addAuthHeaders ==
    IF store.tokens # NULL /\ store.tokens.accessToken # ""
    THEN [bearer |-> store.tokens.accessToken] ELSE NULL

\* request, up to the retry loop: the headers are built once.
ApiRequest ==
    /\ api.pc = "idle"
    /\ \E options \in RequestOptions :
         api' = [NoRequest EXCEPT
                   !.pc = "fetch", !.options = options,
                   !.authorization = IF options.skipAuth THEN NULL ELSE addAuthHeaders]
    /\ UNCHANGED <<serverVars, storeVars, permVars, notificationStore, userVars>>

\* The error thrown in the try block for a response, after handleAuthErrors
\* has returned: response.json() throws on a body that does not parse, then
\* a response that is not ok is thrown as an ApiError with its status.
ErrorOf(options, response) ==
    IF response.status = 0
      THEN [message |-> "Network request failed", statusCode |-> 0]
    ELSE IF options.responseType = "json" /\ response.body = "malformed"
      THEN [message |-> "JSON Parse error", statusCode |-> 0]
    ELSE IF response.status \notin 200..299
      THEN [message |-> "HTTP error", statusCode |-> response.status]
    ELSE NoError

\* The rest of one pass of the loop: return, or the catch block.
Settle(a, response) ==
    LET error == ErrorOf(a.options, response)
    IN IF error = NoError
         THEN [a EXCEPT !.pc = "done", !.result = "ok", !.response = NULL]
       ELSE IF error.statusCode >= 400 /\ error.statusCode < 500
         THEN [a EXCEPT !.pc = "done", !.result = "err", !.lastError = error,
                        !.response = NULL]
       ELSE IF a.attempt < a.options.retries
         THEN [a EXCEPT !.pc = "delay", !.lastError = error, !.response = NULL]
       ELSE [a EXCEPT !.pc = "done", !.result = "err", !.lastError = error,
                      !.response = NULL]

Fetched(a, response) ==
    [a EXCEPT !.fetches = a.fetches + 1, !.sent = a.authorization,
              !.response = response,
              !.clientErrorAt = IF a.clientErrorAt = 0 /\ response.status \in 400..499
                                THEN a.fetches + 1 ELSE a.clientErrorAt]

\* One fetch and handleAuthErrors: on a 401 the store's refreshToken() is
\* called and awaited; it returns at once when the store has no refresh token.
ApiFetch ==
    /\ api.pc = "fetch"
    /\ \E response \in FetchOutcomes :
         IF response.status = 401 /\ store.tokens # NULL /\ store.tokens.refreshToken # ""
         THEN /\ RefreshBegin("handleAuthErrors")
              /\ api' = [Fetched(api, response) EXCEPT !.pc = "refreshing"]
         ELSE /\ api' = Settle(Fetched(api, response), response)
              /\ UNCHANGED <<serverVars, storeVars, permVars>>
    /\ UNCHANGED <<notificationStore, userVars>>

\* The awaited refreshToken() settles (it never rejects: its catch block
\* calls logout), handleAuthErrors returns the response, and the pass goes on.
ApiRefreshFinish(o) ==
    /\ api.pc = "refreshing"
    /\ o.op = "refresh" /\ o.origin = "handleAuthErrors"
    /\ IF o.outcome = "resolved" THEN RefreshInstall(o) ELSE RefreshCatch(o)
    /\ api' = [Settle(api, api.response) EXCEPT
                 !.refreshedAt = IF o.outcome = "resolved" THEN api.fetches ELSE @,
                 !.refreshedTo = IF o.outcome = "resolved"
                                 THEN [bearer |-> store'.tokens.accessToken] ELSE @]
    /\ UNCHANGED <<db, now, env, calls, permVars, notificationStore, userVars>>

\* The delay before the next attempt.
ApiRetryDelay ==
    /\ api.pc = "delay"
    /\ api' = [api EXCEPT !.pc = "fetch", !.attempt = api.attempt + 1]
    /\ UNCHANGED <<serverVars, storeVars, permVars, notificationStore, userVars>>

\* The caller has the result; the client can take the next request.
ApiReturn ==
    /\ api.pc = "done"
    /\ api' = NoRequest
    /\ UNCHANGED <<serverVars, storeVars, permVars, notificationStore, userVars>>

---------------------------------------------------------------------------
(* useNotificationStore. *)

initialNotificationState ==
    [notifications |-> << >>, unreadCount |-> 0, isLoading |-> FALSE, error |-> NULL]

\* Date.now() at a call of addNotification: not before the time of any
\* notification in the list, and possibly the same millisecond.
DateNow ==
    {t \in 1..MaxClock :
       \A n \in 1..Len(notificationStore.notifications) :
         notificationStore.notifications[n].timestamp <= t}

\* Number.prototype.toString of a time in milliseconds.
ToIdString(t) == [digits |-> t]

NotificationIds == {ToIdString(t) : t \in 1..MaxClock}

NotificationInputs == [type : {"info", "error"}]

\* Array.prototype.map and filter over the notifications.
MapNotifications(list, f(_)) == [n \in 1..Len(list) |-> f(list[n])]
FilterNotifications(list, keep(_)) == SelectSeq(list, keep)

NotificationUnchanged ==
    UNCHANGED <<serverVars, storeVars, permVars, api, userVars>>

AddNotification ==
    /\ Len(notificationStore.notifications) < MaxNotifications
    /\ notificationStore.unreadCount < MaxUnread
    /\ \E notification \in NotificationInputs : \E t \in DateNow :
         LET newNotification ==
               [type |-> notification.type, id |-> ToIdString(t),
                timestamp |-> t, isRead |-> FALSE]
         IN notificationStore' =
              [notificationStore EXCEPT
                 !.notifications = <<newNotification>> \o @,
                 !.unreadCount = @ + 1]
    /\ NotificationUnchanged

MarkAsRead ==
    /\ \E id \in NotificationIds :
         LET read(notif) == IF notif.id = id THEN [notif EXCEPT !.isRead = TRUE]
                            ELSE notif
             max(x, y) == IF x >= y THEN x ELSE y
         IN notificationStore' =
              [notificationStore EXCEPT
                 !.notifications = MapNotifications(@, read),
                 !.unreadCount = max(0, @ - 1)]
    /\ NotificationUnchanged

MarkAllAsRead ==
    /\ LET read(notif) == [notif EXCEPT !.isRead = TRUE]
       IN notificationStore' =
            [notificationStore EXCEPT
               !.notifications = MapNotifications(@, read),
               !.unreadCount = 0]
    /\ NotificationUnchanged

RemoveNotification ==
    /\ notificationStore.unreadCount > -MaxUnread
    /\ \E id \in NotificationIds :
         LET keep(notif) == notif.id # id
             found == \E n \in 1..Len(notificationStore.notifications) :
                        /\ notificationStore.notifications[n].id = id
                        /\ ~notificationStore.notifications[n].isRead
         IN notificationStore' =
              [notificationStore EXCEPT
                 !.notifications = FilterNotifications(@, keep),
                 !.unreadCount = IF found THEN @ - 1 ELSE @]
    /\ NotificationUnchanged

---------------------------------------------------------------------------
(* useUserStore. *)

initialUserState ==
    [currentUser |-> NULL, userProfile |-> NULL, userPreferences |-> NULL,
     userStatistics |-> NULL, isLoading |-> FALSE, error |-> NULL]

\* persist options: the fields written to the 'user-store' record.
partializeUser(state) ==
    [currentUser |-> state.currentUser, userPreferences |-> state.userPreferences]

\* set(patch) of the persisted store: merge, then write the partialized state
\* through userStorage.setItem, which drops the error of a failed write.
UserSet(patch) ==
    /\ userStore' = Merge(patch, userStore)
    /\ \/ /\ userPersisted' = partializeUser(Merge(patch, userStore))
          /\ faults' = faults
       \/ /\ faults < MaxFaults
          /\ faults' = faults + 1
          /\ userPersisted' = userPersisted

\* { ...object, ...updates } (a null object spreads to nothing).
Spread(object, updates) ==
    IF object = NULL THEN updates
    ELSE [f \in DOMAIN object \cup DOMAIN updates |->
            IF f \in DOMAIN updates THEN updates[f] ELSE object[f]]

CurrentUserInputs ==
    {NULL, [id |-> "1", displayName |-> "Test User", updatedAt |-> 0]}
UpdateUserProfileInputs == {[displayName |-> "Metal Fan"]}
UserPreferencesInputs == {[theme |-> "dark"]}

\* The backend calls the store's actions are to make (userAPI.updateProfile,
\* .updatePreferences, .getStatistics): each is awaited and resolves or rejects.
userAPIOutcomes == {"resolved", "rejected"}
userAPIError == [message |-> "Network request failed"]

UserOpsInFlight == BagToSet(userOps)

UserUnchanged ==
    UNCHANGED <<db, now, env, calls, storeVars, permVars, api, notificationStore>>

SetCurrentUser ==
    /\ \E user \in CurrentUserInputs : UserSet([currentUser |-> user])
    /\ UNCHANGED userOps
    /\ UserUnchanged

\* updateProfile, updatePreferences and getUserStatistics, up to the await.
UserOpStart(op, args) ==
    /\ BagCardinality(userOps) < MaxUserOps
    /\ \E arg \in args, outcome \in userAPIOutcomes :
         userOps' = userOps (+) SetToBag({[op |-> op, arg |-> arg, outcome |-> outcome]})
    /\ UserSet([isLoading |-> TRUE, error |-> NULL])
    /\ UserUnchanged

UpdateProfileStart == UserOpStart("updateProfile", UpdateUserProfileInputs)
UpdatePreferencesStart == UserOpStart("updatePreferences", UserPreferencesInputs)
GetUserStatisticsStart == UserOpStart("getUserStatistics", {NULL})

\* The catch block of the three.
UserOpCatch == UserSet([error |-> userAPIError, isLoading |-> FALSE])

\* updateProfile, the try block after the await.
UpdateProfileTry(o) ==
    IF userStore.currentUser # NULL
    THEN UserSet([currentUser |-> Spread(Spread(userStore.currentUser, o.arg),
                                         [updatedAt |-> now]),
                  isLoading |-> FALSE])
    ELSE UNCHANGED <<userStore, userPersisted, faults>>

UpdateProfileFinish(o) ==
    /\ o.op = "updateProfile"
    /\ IF o.outcome = "resolved" THEN UpdateProfileTry(o) ELSE UserOpCatch
    /\ userOps' = userOps (-) SetToBag({o})
    /\ UserUnchanged

UpdatePreferencesFinish(o) ==
    /\ o.op = "updatePreferences"
    /\ IF o.outcome = "resolved"
       THEN UserSet([userPreferences |-> Spread(userStore.userPreferences, o.arg),
                     isLoading |-> FALSE])
       ELSE UserOpCatch
    /\ userOps' = userOps (-) SetToBag({o})
    /\ UserUnchanged

mockStatistics ==
    [totalPosts |-> 0, totalComments |-> 0, totalLikes |-> 0, totalShares |-> 0,
     forumPosts |-> 0, forumComments |-> 0, joinedAt |-> now, lastActiveAt |-> now]

GetUserStatisticsFinish(o) ==
    /\ o.op = "getUserStatistics"
    /\ IF o.outcome = "resolved"
       THEN UserSet([userStatistics |-> mockStatistics, isLoading |-> FALSE])
       ELSE UserOpCatch
    /\ userOps' = userOps (-) SetToBag({o})
    /\ UserUnchanged

ClearUserData ==
    /\ UserSet([currentUser |-> NULL, userProfile |-> NULL, userPreferences |-> NULL,
                userStatistics |-> NULL, error |-> NULL])
    /\ UNCHANGED userOps
    /\ UserUnchanged

UserSetLoading ==
    /\ \E loading \in BOOLEAN : UserSet([isLoading |-> loading])
    /\ UNCHANGED userOps
    /\ UserUnchanged

UserSetError ==
    /\ \E error \in SetErrorInputs : UserSet([error |-> error])
    /\ UNCHANGED userOps
    /\ UserUnchanged

---------------------------------------------------------------------------
(* Specifications. *)

InitServer ==
    /\ env = [JWT_SECRET |-> DEFAULT_JWT_SECRET, REFRESH_SECRET |-> DEFAULT_REFRESH_SECRET]
    /\ now = 0
    /\ db = << >>
    /\ calls = << >>
    /\ faults = 0

InitClient ==
    /\ store = initialState
    /\ persisted = NULL
    /\ ops = EmptyBag

InitIdleResolver ==
    /\ query = NoQuery
    /\ answer = NULL

InitIdleApp ==
    /\ api = NoRequest
    /\ notificationStore = initialNotificationState
    /\ userStore = initialUserState
    /\ userPersisted = NULL
    /\ userOps = EmptyBag

DatabaseStep ==
    \/ \E i \in 1..Len(calls) : RegisterFind(i)
    \/ \E i \in 1..Len(calls) : RegisterCreate(i)
    \/ \E i \in 1..Len(calls) : LoginFind(i)
    \/ \E i \in 1..Len(calls) : StoreRefreshToken(i)
    \/ \E i \in 1..Len(calls) : RefreshFind(i)
    \/ \E i \in 1..Len(calls) : UpdateLastActive(i)
    \/ \E i \in 1..Len(calls) : LogoutUpdate(i)
    \/ \E i \in 1..Len(calls) : DbFault(i)
    \/ \E o \in OpsInFlight : ClientLogoutFinish(o)
    \/ Tick

\* The AuthService under clients that await each call before the next.
Init == InitServer /\ InitClient /\ InitIdleApp /\ InitIdleResolver

Next ==
    \/ InvokeRegister(CanCallInTurn)
    \/ InvokeLogin(CanCallInTurn)
    \/ InvokeRefresh(CanCallInTurn)
    \/ InvokeLogout(CanCallInTurn)
    \/ DatabaseStep

Spec == Init /\ [][Next]_vars

\* The AuthService under calls that overlap.
NextConcurrent ==
    \/ InvokeRegister(CanCallConcurrently)
    \/ InvokeLogin(CanCallConcurrently)
    \/ InvokeRefresh(CanCallConcurrently)
    \/ InvokeLogout(CanCallConcurrently)
    \/ DatabaseStep

SpecConcurrent == Init /\ [][NextConcurrent]_vars

\* The client store, against a database that holds one identity: the state
\* after register({email: "a", username: "a", password: "p"}) has returned.
SeedData == [email |-> "a", username |-> "a", password |-> <<"p">>]

InitSeeded ==
    /\ env = [JWT_SECRET |-> DEFAULT_JWT_SECRET, REFRESH_SECRET |-> DEFAULT_REFRESH_SECRET]
    /\ now = 0
    /\ db = <<[NewUser(1, SeedData, 0) EXCEPT
                 !.refreshToken = generateRefreshToken(NewUser(1, SeedData, 0), 0),
                 !.writtenBy = 1]>>
    /\ calls = <<[kind |-> "register", data |-> SeedData, pc |-> "done", uid |-> 1,
                  tokens |-> NULL, result |-> "ok", error |-> "",
                  ret |-> [user |-> 1,
                           accessToken |-> generateAccessToken(NewUser(1, SeedData, 0), 0),
                           refreshToken |-> generateRefreshToken(NewUser(1, SeedData, 0), 0),
                           expiresIn |-> parseExpiryToSeconds(ACCESS_TOKEN_EXPIRY)],
                  doneBefore |-> {}, before |-> << >>]>>
    /\ faults = 0

CanCallFromClient == Len(calls) < 1 + MaxStoreCalls /\ PendingCalls = {}

InitStore == InitSeeded /\ InitClient /\ InitIdleApp /\ InitIdleResolver

NextStore ==
    \/ ClientLoginStart
    \/ ClientRegisterStart
    \/ ClientLogoutStart
    \/ ClientRefreshStart
    \/ HandleAuthErrors401
    \/ MutationOnError401
    \/ HandleQueryError401
    \/ \E o \in OpsInFlight : ClientLoginFinish(o)
    \/ \E o \in OpsInFlight : ClientRegisterFinish(o)
    \/ \E o \in OpsInFlight : ClientLogoutFinish(o)
    \/ \E o \in OpsInFlight : ClientRefreshFinish(o)
    \/ SetUser
    \/ SetTokens
    \/ ClearError
    \/ InvokeLogout(CanCallFromClient)
    \/ \E i \in 1..Len(calls) : LogoutUpdate(i)
    \/ \E i \in 1..Len(calls) : DbFault(i)

SpecStore == InitStore /\ [][NextStore]_vars

\* The refresh path on both sides: AuthService.refreshToken on the stored
\* identity, and the store's refreshToken() on the client session.
CanCallRefresh == Len(calls) < 1 + MaxRefreshCalls /\ PendingCalls = {}

NextRefresh ==
    \/ InvokeRefresh(CanCallRefresh)
    \/ InvokeLogout(CanCallRefresh)
    \/ \E i \in 1..Len(calls) : RefreshFind(i)
    \/ \E i \in 1..Len(calls) : UpdateLastActive(i)
    \/ \E i \in 1..Len(calls) : LogoutUpdate(i)
    \/ \E i \in 1..Len(calls) : DbFault(i)
    \/ Tick
    \/ ClientLoginStart
    \/ ClientRefreshStart
    \/ \E o \in OpsInFlight : ClientLoginFinish(o)
    \/ \E o \in OpsInFlight : ClientRefreshFinish(o)
    \/ \E o \in OpsInFlight : ClientLogoutFinish(o)

SpecRefresh == InitStore /\ [][NextRefresh]_vars

\* The AuthService constructed under each configuration of process.env.
InitSecrets ==
    /\ \E e \in ProcessEnv :
         env = [JWT_SECRET |-> EnvOr(e.JWT_SECRET, DEFAULT_JWT_SECRET),
                REFRESH_SECRET |-> EnvOr(e.REFRESH_SECRET, DEFAULT_REFRESH_SECRET)]
    /\ now = 0
    /\ db = << >>
    /\ calls = << >>
    /\ faults = 0
    /\ InitClient /\ InitIdleApp /\ InitIdleResolver

CanCallSecrets == Len(calls) < MaxSecretCalls /\ PendingCalls = {}

NextSecrets ==
    \/ InvokeRegister(CanCallSecrets)
    \/ InvokeLogin(CanCallSecrets)
    \/ InvokeRefresh(CanCallSecrets)
    \/ InvokeLogout(CanCallSecrets)
    \/ InvokeVerifyAccessToken(CanCallSecrets)
    \/ DatabaseStep

SpecSecrets == InitSecrets /\ [][NextSecrets]_vars

\* register and login of one identity under the password candidates.
CanCallPasswords == Len(calls) < MaxPasswordCalls /\ PendingCalls = {}

NextPasswords ==
    \/ InvokeRegisterWith(CanCallPasswords, PasswordRegisterInputs)
    \/ InvokeLoginWith(CanCallPasswords, PasswordLoginInputs)
    \/ \E i \in 1..Len(calls) : RegisterFind(i)
    \/ \E i \in 1..Len(calls) : RegisterCreate(i)
    \/ \E i \in 1..Len(calls) : LoginFind(i)
    \/ \E i \in 1..Len(calls) : StoreRefreshToken(i)
    \/ \E i \in 1..Len(calls) : UpdateLastActive(i)
    \/ \E i \in 1..Len(calls) : DbFault(i)

SpecPasswords == Init /\ [][NextPasswords]_vars

\* Registrations of well-formed and of malformed input.
NextPolicy ==
    \/ InvokeRegisterWith(CanCallPasswords, PolicyRegisterInputs)
    \/ \E i \in 1..Len(calls) : RegisterFind(i)
    \/ \E i \in 1..Len(calls) : RegisterCreate(i)
    \/ \E i \in 1..Len(calls) : StoreRefreshToken(i)
    \/ \E i \in 1..Len(calls) : UpdateLastActive(i)
    \/ \E i \in 1..Len(calls) : DbFault(i)

SpecPolicy == Init /\ [][NextPolicy]_vars

\* Every action the store exposes, over a secure storage that does not fail.
InitStoreActions ==
    /\ env = [JWT_SECRET |-> DEFAULT_JWT_SECRET, REFRESH_SECRET |-> DEFAULT_REFRESH_SECRET]
    /\ now = 0
    /\ db = << >>
    /\ calls = << >>
    /\ faults = MaxFaults
    /\ InitClient /\ InitIdleApp /\ InitIdleResolver

NextStoreActions ==
    \/ ClientLoginStart
    \/ ClientRegisterStart
    \/ ClientLogoutStart
    \/ ClientRefreshStart
    \/ ResetPasswordStart
    \/ ConfirmResetPasswordStart
    \/ ChangePasswordStart
    \/ \E o \in OpsInFlight : ClientLoginFinish(o)
    \/ \E o \in OpsInFlight : ClientRegisterFinish(o)
    \/ \E o \in OpsInFlight : ClientLogoutFinish(o)
    \/ \E o \in OpsInFlight : ClientRefreshFinish(o)
    \/ \E o \in OpsInFlight : AwaitingFinish(o)
    \/ EnableBiometric
    \/ DisableBiometric
    \/ BiometricLogin
    \/ ClearError
    \/ SetUser
    \/ SetTokens
    \/ SetLoading
    \/ SetError
    \/ UpdateUserRole
    \/ UpdateSubscription

SpecStoreActions == InitStoreActions /\ [][NextStoreActions]_vars

\* The store over a secure storage whose writes may fail, and process restarts.
NextRestart ==
    \/ ClientLoginStart
    \/ ClientRegisterStart
    \/ ClientLogoutStart
    \/ ClientRefreshStart
    \/ \E o \in OpsInFlight : ClientLoginFinish(o)
    \/ \E o \in OpsInFlight : ClientRegisterFinish(o)
    \/ \E o \in OpsInFlight : ClientLogoutFinish(o)
    \/ \E o \in OpsInFlight : ClientRefreshFinish(o)
    \/ EnableBiometric
    \/ DisableBiometric
    \/ Rehydrate

SpecRestart == Init /\ [][NextRestart]_vars

\* Requests through the ApiClient of a client that can log in.
NextApi ==
    \/ ClientLoginStart
    \/ \E o \in OpsInFlight : ClientLoginFinish(o)
    \/ \E o \in OpsInFlight : ClientLogoutFinish(o)
    \/ ApiRequest
    \/ ApiFetch
    \/ \E o \in OpsInFlight : ApiRefreshFinish(o)
    \/ ApiRetryDelay
    \/ ApiReturn

SpecApi == InitStoreActions /\ [][NextApi]_vars

\* The notification store under any sequence of its list operations.
NextNotifications ==
    \/ AddNotification
    \/ MarkAsRead
    \/ MarkAllAsRead
    \/ RemoveNotification

SpecNotifications == Init /\ [][NextNotifications]_vars

\* The user store under every interleaving of its actions.
NextUserStore ==
    \/ SetCurrentUser
    \/ UpdateProfileStart
    \/ UpdatePreferencesStart
    \/ GetUserStatisticsStart
    \/ \E o \in UserOpsInFlight : UpdateProfileFinish(o)
    \/ \E o \in UserOpsInFlight : UpdatePreferencesFinish(o)
    \/ \E o \in UserOpsInFlight : GetUserStatisticsFinish(o)
    \/ ClearUserData
    \/ UserSetLoading
    \/ UserSetError

SpecUserStore == Init /\ [][NextUserStore]_vars

\* The same, where every awaited call settles and its action then goes on.
SpecUserStoreFair ==
    /\ SpecUserStore
    /\ \A op \in {"updateProfile", "updatePreferences", "getUserStatistics"} :
         WF_vars(\E o \in UserOpsInFlight :
                    /\ o.op = op
                    /\ \/ UpdateProfileFinish(o)
                       \/ UpdatePreferencesFinish(o)
                       \/ GetUserStatisticsFinish(o))

\* The resolver, asked once about any two roles and a permission.
InitPermissions ==
    /\ InitServer /\ InitClient /\ InitIdleApp
    /\ query \in Queries
    /\ answer = NULL

NextPermissions ==
    \/ AskGetUserPermissions
    \/ AskHasPermission

SpecPermissions == InitPermissions /\ [][NextPermissions]_vars

\* The rank comparisons, asked once about any two roles and any two tiers.
InitRanks ==
    /\ InitServer /\ InitClient /\ InitIdleApp
    /\ query \in RankQueries
    /\ answer = NULL

NextRanks ==
    \/ AskHasRole
    \/ AskHasSubscriptionTier

SpecRanks == InitRanks /\ [][NextRanks]_vars

\* The gates, each asked once about any role, tier, permission and list.
InitGates ==
    /\ InitServer /\ InitClient /\ InitIdleApp
    /\ query \in GateQueries
    /\ answer = NULL

NextGates ==
    \/ AskCanAccessPremiumContent
    \/ AskCanAccessVIPContent
    \/ AskCanModerateContent
    \/ AskCanManageUsers_auth
    \/ AskHasPermission
    \/ AskHasAnyPermission
    \/ AskHasAllPermissions
    \/ AskCanAccessPremium
    \/ AskCanAccessVIP
    \/ AskCanModerate
    \/ AskCanManageUsers_permissions

SpecGates == InitGates /\ [][NextGates]_vars

---------------------------------------------------------------------------
(* Properties of the AuthService. *)

Ok(i) == calls[i].result = "ok"

\* The identity a completed call acted on.
CallUid(i) == IF calls[i].kind = "logout" THEN calls[i].data.userId ELSE calls[i].uid

\* Call x ended the session that call i opened: a logout of the identity, or a
\* later login on it, that started after i had returned.
Revokes(x, i) ==
    /\ Ok(x) /\ Ok(i)
    /\ calls[x].kind \in {"logout", "login"}
    /\ calls[i].kind \in {"register", "login"}
    /\ CallUid(x) = CallUid(i)
    /\ i \in calls[x].doneBefore

\* Call b holds the session of its identity: no call on the identity that
\* started after b returned has stored or cleared a refresh token.
HoldsSession(b) ==
    /\ Ok(b) /\ calls[b].kind = "login"
    /\ \A c \in 1..Len(calls) :
         (b \in calls[c].doneBefore /\ calls[c].kind \in {"register", "login", "logout"})
           => calls[c].result = "err"

\* Refresh call r, in flight, is rejected by the token lookup.
LookupRejects(r) ==
    /\ r \in PendingCalls
    /\ calls[r].kind = "refresh"
    /\ calls'[r].result = "err"
    /\ faults' = faults

RefreshedWithTokenOf(r, a) ==
    /\ calls[r].kind = "refresh" /\ Ok(r)
    /\ calls[r].data = calls[a].ret.refreshToken
    /\ a \in calls[r].doneBefore

\* C1, first half: after login A and then login B on one identity, no refresh
\* called afterwards with the refresh token A returned succeeds.
SupersededTokenFails ==
    \A a, b, r \in 1..Len(calls) :
      (/\ Ok(a) /\ calls[a].kind = "login"
       /\ Ok(b) /\ calls[b].kind = "login"
       /\ calls[a].uid = calls[b].uid
       /\ a \in calls[b].doneBefore
       /\ b \in calls[r].doneBefore)
        => ~RefreshedWithTokenOf(r, a)

\* C1, second half: a refresh called with the refresh token of the login that
\* holds the session is not rejected by the token lookup.
CurrentTokenSucceeds ==
    \A b, r \in 1..Len(calls) :
      (/\ HoldsSession(b)
       /\ calls[r].kind = "refresh"
       /\ calls[r].data = calls[b].ret.refreshToken
       /\ b \in calls[r].doneBefore)
        => ~LookupRejects(r)

\* C1: single-session invariant.  For two successful logins A then B on one
\* identity, however close in time, a refresh called afterwards with A's
\* refresh token fails and one called with B's succeeds.
SingleSession == [][SupersededTokenFails' /\ CurrentTokenSucceeds]_vars

\* A refresh call is made or takes a step.
RefreshSteps(r) ==
    /\ r \in 1..Len(calls')
    /\ calls'[r].kind = "refresh"
    /\ (r > Len(calls) \/ calls'[r] # calls[r])

\* C2: token monotonicity.  A refresh called with a refresh token that is
\* expired, or that was revoked by a logout or a later login, never returns an
\* access token, and no step of a refresh call changes a stored refresh token.
TokenMonotonicity ==
    [][/\ \A r \in 1..Len(calls') :
            RefreshSteps(r) =>
              /\ (r > Len(calls) /\ calls'[r].result = "pending")
                    => now < calls'[r].data.exp
              /\ \A k \in 1..Len(db) : db'[k].refreshToken = db[k].refreshToken
       /\ \A r, i, x \in 1..Len(calls) :
            (/\ Revokes(x, i)
             /\ x \in calls[r].doneBefore
             /\ r \in PendingCalls
             /\ calls[r].kind = "refresh"
             /\ calls[r].data = calls[i].ret.refreshToken)
              => calls'[r].pc # "touch"]_vars

\* C3: uniqueness.  No two rows of the User table share an email, and no two
\* share a username, whatever the interleaving of the register calls.
Uniqueness ==
    \A j, k \in 1..Len(db) :
      j # k => db[j].email # db[k].email /\ db[j].username # db[k].username

\* Two register calls overlapped, both passed the findFirst check, and the
\* second create was stopped by the unique index.
UniquenessWitness ==
    /\ Len(db) >= 1
    /\ \E i \in 1..Len(calls) :
         /\ calls[i].kind = "register"
         /\ calls[i].error = "Registration failed: Unique constraint failed"

---------------------------------------------------------------------------
(* Properties of the resolver. *)

\* C4: permission monotonicity.  For roles r1 < r2 in the order of the role
\* hierarchy, every permission getUserPermissions returns for r1 is among
\* those it returns for r2.
PermissionMonotonicity ==
    (/\ answer # NULL
     /\ answer.fn = "getUserPermissions"
     /\ roleHierarchy[query.userRole] < roleHierarchy[query.otherRole])
      => \A n \in 1..Len(answer.value[1]) :
           Includes(answer.value[2], answer.value[1][n])

---------------------------------------------------------------------------
(* Properties of the client session. *)

SessionCleared ==
    /\ store.user = NULL
    /\ store.tokens = NULL
    /\ store.isAuthenticated = FALSE

\* The operations in flight in bag that are o but for logoutSince.
Like(o, bag) ==
    BagCardinality([x \in {y \in BagToSet(bag) :
                             [y EXCEPT !.logoutSince = o.logoutSince] = o}
                      |-> bag[x]])

\* Operation o, in flight, runs to its end in this step.
Finishes(o) == Like(o, ops') < Like(o, ops)

\* An operation like o starts in this step.
Starts(o) == Like(o, ops') > Like(o, ops)

\* The store's logout begins in this step.
LogoutStarts == \E o \in BagToSet(ops') : o.op = "logout" /\ Starts(o)

\* Every store logout that runs to its end leaves the session cleared.
LogoutEndsCleared ==
    \A o \in OpsInFlight : (o.op = "logout" /\ Finishes(o)) => SessionCleared'

\* C5: logout always succeeds locally.  A logout started from the store's
\* logout() ends with the session cleared, and an AuthService.logout(userId)
\* that returns or throws has cleared the session or started the store's
\* logout, also when the update of the stored refresh token fails.
LogoutSucceedsLocally ==
    [][/\ LogoutEndsCleared
       /\ \A i \in PendingCalls :
            (calls[i].kind = "logout" /\ calls'[i].result # "pending")
              => (SessionCleared' \/ LogoutStarts)]_vars

\* C6: refresh failure cascades to logout.  When a refresh of the store fails,
\* whichever caller started it, the store's logout starts in the same step, and
\* that logout ends with user = null, tokens = null, isAuthenticated = false.
RefreshFailureCascades ==
    [][/\ \A o \in OpsInFlight :
            (o.op = "refresh" /\ o.outcome = "rejected" /\ Finishes(o))
              => \E l \in BagToSet(ops') :
                   l.op = "logout" /\ l.origin = "refreshToken" /\ Starts(l)
       /\ \A l \in OpsInFlight :
            (l.op = "logout" /\ l.origin = "refreshToken" /\ Finishes(l))
              => SessionCleared']_vars

\* A refresh has failed and the logout it started is in flight.
RefreshFailureCascadesWitness ==
    \E l \in OpsInFlight : l.op = "logout" /\ l.origin = "refreshToken"

RefreshesInFlight ==
    BagCardinality([o \in {x \in OpsInFlight : x.op = "refresh"} |-> ops[o]])

\* C7: refresh coalescing.  However many callers trigger the store's
\* refreshToken(), at most one refresh is in flight at any moment.
RefreshCoalescing == RefreshesInFlight <= 1

\* C8: logout wins over an in-flight refresh.  When logout is called after a
\* refresh has read the tokens and clears the session before the refresh
\* completes, the completion of the refresh does not install tokens.
LogoutWinsOverRefresh ==
    [][\A o \in OpsInFlight :
         (o.op = "refresh" /\ o.logoutSince = "finished" /\ Finishes(o))
           => store'.tokens = store.tokens]_vars

---------------------------------------------------------------------------
(* Properties of concurrent calls and of the refresh path. *)

\* C9: per-identity serialization.  A login that reported success on an
\* identity follows, in every serial order, the register that created the
\* identity: the refresh token the register stored never replaces the one the
\* login returned.
PerIdentitySerialization ==
    \A l, r \in 1..Len(calls) :
      (/\ Ok(l) /\ calls[l].kind = "login"
       /\ calls[r].kind = "register" /\ calls[r].uid = calls[l].uid
       /\ db[calls[l].uid].writtenBy = r)
        => db[calls[l].uid].refreshToken = calls[l].ret.refreshToken

\* C10: refresh does not rotate the refresh token.  No step of
\* AuthService.refreshToken changes a stored refresh token, its result holds
\* an access token and its lifetime only, and a refresh with the stored token
\* is not rejected by the lookup; the store's refreshToken() reads
\* tokens.refreshToken and installs that same value with the new access token.
RefreshDoesNotRotate ==
    [][/\ \A r \in 1..Len(calls') :
            RefreshSteps(r) =>
              \A k \in 1..Len(db) : db'[k].refreshToken = db[k].refreshToken
       /\ \A r \in PendingCalls :
            calls[r].kind = "refresh" =>
              /\ calls'[r].result = "ok" =>
                   /\ DOMAIN calls'[r].ret = {"accessToken", "expiresIn"}
                   /\ calls'[r].ret.accessToken.sig = env.JWT_SECRET
              /\ (/\ calls[r].data.payload.sub \in 1..Len(db)
                  /\ db[calls[r].data.payload.sub].refreshToken = calls[r].data)
                   => ~LookupRejects(r)
       /\ \A o \in BagToSet(ops') :
            (o.op = "refresh" /\ Starts(o)) => o.arg = store.tokens.refreshToken
       /\ \A o \in OpsInFlight :
            (o.op = "refresh" /\ o.outcome = "resolved" /\ Finishes(o))
              => /\ store'.tokens # NULL
                 /\ store'.tokens.refreshToken = o.arg]_vars

\* The same refresh token has served two successive refreshes on the server,
\* and the store has refreshed its session.
RefreshDoesNotRotateWitness ==
    /\ \E r1, r2 \in 1..Len(calls) :
         /\ Ok(r1) /\ calls[r1].kind = "refresh"
         /\ Ok(r2) /\ calls[r2].kind = "refresh"
         /\ r1 \in calls[r2].doneBefore
         /\ calls[r1].data = calls[r2].data
    /\ store.tokens # NULL
    /\ store.tokens.accessToken = "new-mock-access-token"
    /\ store.tokens.refreshToken = mockTokens.refreshToken

---------------------------------------------------------------------------
(* Properties of revocation, token classes and login errors. *)

\* Logout x of an identity has returned and no login or register on the
\* identity that started after it has returned a token.
LogoutStands(x) ==
    /\ Ok(x) /\ calls[x].kind = "logout"
    /\ \A c \in 1..Len(calls) :
         (Ok(c) /\ calls[c].kind \in {"register", "login"}
            /\ calls[c].uid = calls[x].data.userId)
           => c \in calls[x].doneBefore

\* C11: revocation.  A logout that succeeds leaves the stored refresh token of
\* the identity null, and a refresh called after it with a token of the
\* identity does not pass the token lookup until a later login or register has
\* issued a new token.
Revocation ==
    [][/\ \A x \in PendingCalls :
            (calls[x].kind = "logout" /\ calls'[x].result = "ok")
              => db'[calls[x].data.userId].refreshToken = NULL
       /\ \A r \in PendingCalls, x \in 1..Len(calls) :
            (/\ calls[r].kind = "refresh"
             /\ LogoutStands(x)
             /\ x \in calls[r].doneBefore
             /\ calls[r].data.payload.sub = calls[x].data.userId)
              => calls'[r].pc # "touch"]_vars

MintedByGenerateAccessToken(token) == "email" \in DOMAIN token.payload
MintedByGenerateRefreshToken(token) == "type" \in DOMAIN token.payload

\* C12: token class separation.  Under every configuration of the two
\* secrets, refreshToken succeeds for no token minted by generateAccessToken
\* and verifyAccessToken succeeds for no token minted by generateRefreshToken.
TokenClassSeparation ==
    \A i \in 1..Len(calls) :
      /\ (Ok(i) /\ calls[i].kind = "refresh")
           => ~MintedByGenerateAccessToken(calls[i].data)
      /\ (Ok(i) /\ calls[i].kind = "verifyAccessToken")
           => ~MintedByGenerateRefreshToken(calls[i].data)

\* The rows the identifier of login i matches.
Matches(i) ==
    FindByEmailOrUsername(calls[i].data.identifier, calls[i].data.identifier)

\* Login i is at its lookup and takes it in this step, no database error.
LoginLooksUp(i) ==
    /\ i \in PendingCalls
    /\ calls[i].kind = "login" /\ calls[i].pc = "find"
    /\ calls'[i] # calls[i]
    /\ faults' = faults

\* The register call that created row k and returned.
RegisteredBy(c, k) == Ok(c) /\ calls[c].kind = "register" /\ calls[c].uid = k

\* C13: no user enumeration.  A login whose identifier matches no identity and
\* a login whose password is wrong fail with the same error value and leave
\* the User table as it was.
NoUserEnumeration ==
    [][\A i \in 1..Len(calls) :
         LoginLooksUp(i) =>
           /\ Matches(i) = {} => calls'[i].result = "err"
           /\ calls'[i].result = "err" =>
                /\ calls'[i].error = "Login failed: Invalid credentials"
                /\ calls'[i].ret = NULL
                /\ db' = db]_vars

\* After the registration of an identity, one login has failed on an
\* identifier no identity has and one on a wrong password of the identity.
NoUserEnumerationWitness ==
    \E c, i, j \in 1..Len(calls) :
      /\ RegisteredBy(c, 1) /\ c < i /\ c < j
      /\ calls[i].kind = "login" /\ calls[i].result = "err" /\ Matches(i) = {}
      /\ calls[j].kind = "login" /\ calls[j].result = "err" /\ Matches(j) = {1}
      /\ calls[j].data.password # calls[c].data.password
      /\ calls[i].error = calls[j].error

\* C14: password round-trip.  A login with the email or the username of a
\* registered identity passes the password check if and only if the candidate
\* is the password given at registration.
PasswordRoundTrip ==
    [][\A i \in 1..Len(calls) :
         LoginLooksUp(i) =>
           \A k \in Matches(i), c \in 1..Len(calls) :
             RegisteredBy(c, k) =>
               (calls'[i].pc = "store"
                  <=> calls[i].data.password = calls[c].data.password)]_vars

\* C15: no partial success.  When register, login or refreshToken reports an
\* error, the User table has the rows it had when the call was made and every
\* row has the stored refresh token it had then.
NoPartialSuccess ==
    [][\A i \in PendingCalls :
         (calls[i].kind \in {"register", "login", "refresh"}
            /\ calls'[i].result = "err")
           => [k \in 1..Len(db') |-> db'[k].refreshToken] = calls[i].before]_vars

---------------------------------------------------------------------------
(* Properties of the store's state. *)

\* A login or register completes in this step with a session.
SessionInstalled ==
    \E o \in OpsInFlight :
      o.op \in {"login", "register"} /\ o.outcome = "resolved" /\ Finishes(o)

\* C16: session atomicity.  A successful login or register installs user,
\* tokens and isAuthenticated in one update, and in every state of the store
\* isAuthenticated is true if and only if user and tokens are both non-null.
SessionAtomicity ==
    [][/\ SessionInstalled =>
            (store'.user # NULL /\ store'.tokens # NULL /\ store'.isAuthenticated)
       /\ store'.isAuthenticated <=> (store'.user # NULL /\ store'.tokens # NULL)]_vars

\* A step of login, register, logout or refreshToken: one of them starts or
\* runs to its end.
MutatorStep ==
    \E o \in OpsInFlight \cup BagToSet(ops') :
      /\ o.op \in {"login", "register", "logout", "refresh"}
      /\ (Starts(o) \/ Finishes(o))

\* C17: only mutators.  user, tokens and isAuthenticated change only in steps
\* of login, register, logout and refreshToken, and error changes only in
\* those steps or to null as clearError sets it.
OnlyMutators ==
    [][/\ (\/ store'.user # store.user
           \/ store'.tokens # store.tokens
           \/ store'.isAuthenticated # store.isAuthenticated) => MutatorStep
       /\ store'.error # store.error => (MutatorStep \/ store'.error = NULL)]_vars

\* The 'auth-store' record is absent, or holds neither tokens nor the
\* authenticated flag.
HoldsNoSession(record) ==
    record = NULL \/ (record.tokens = NULL /\ ~record.isAuthenticated)

\* C18: logged-out persistence.  When logout() completes, the persisted
\* 'auth-store' record holds no session, so that a restart rehydrating from it
\* restores none, also when writes to the secure storage fail.
LoggedOutPersistence ==
    [][(\E o \in OpsInFlight : o.op = "logout" /\ Finishes(o))
          => HoldsNoSession(persisted')]_vars

\* C27: isAuthenticated becomes true only through a successful login or
\* register.  refreshToken() called while tokens is null changes nothing, and
\* no refreshToken, setUser, setTokens, updateUserRole, updateSubscription,
\* clearError or biometric action turns isAuthenticated from false to true.
AuthenticatedOnlyByLogin ==
    [][/\ (~store.isAuthenticated /\ store'.isAuthenticated) => SessionInstalled
       /\ \A o \in BagToSet(ops') :
            (o.op = "refresh" /\ Starts(o)) => store.tokens # NULL
       /\ (store.tokens = NULL /\ ops' = ops /\ ~SessionInstalled)
             => store'.isAuthenticated = store.isAuthenticated]_vars

\* The setters, updateUserRole and enableBiometric have acted, a refresh with
\* the tokens that were set is in flight, and the store is not authenticated.
AuthenticatedOnlyByLoginWitness ==
    /\ ~store.isAuthenticated
    /\ store.user # NULL /\ store.user.role = "ADMIN"
    /\ store.tokens # NULL /\ store.biometricEnabled
    /\ \E o \in OpsInFlight : o.op = "refresh"

---------------------------------------------------------------------------
(* Properties of registration input. *)

SatisfiesInputPolicy(data) ==
    /\ REGEX_EMAIL(Spelling(data.email))
    /\ REGEX_PASSWORD(data.password)
    /\ REGEX_USERNAME(Spelling(data.username))

\* C19: registration input policy.  register creates a user only from an email
\* matching the address pattern, a password of 8 or more characters with a
\* lowercase letter, an uppercase letter, a digit and a symbol, and a username
\* of 3 to 20 letters, digits and underscores.
RegistrationInputPolicy ==
    [][\A i \in PendingCalls :
          (calls[i].kind = "register" /\ Len(db') > Len(db))
             => SatisfiesInputPolicy(calls[i].data)]_vars

---------------------------------------------------------------------------
(* Properties of the rank comparisons. *)

\* The orders as the specification lists them, lowest first.
RoleOrder == <<"GUEST", "FAN", "PREMIUM_FAN", "VIP_FAN", "MODERATOR", "BAND_MEMBER", "ADMIN">>
TierOrder == <<"FREE", "PREMIUM", "VIP">>
RankIn(order, x) == (CHOOSE n \in 1..Len(order) : order[n] = x) - 1

\* C20: role rank order.  hasRole(actual, required) is true exactly when the
\* rank of actual is at least the rank of required, with GUEST = 0 up to
\* ADMIN = 6; over all 49 pairs of roles it is reflexive, transitive and total,
\* exactly one of hasRole(a, b) and hasRole(b, a) holding for distinct roles;
\* hasSubscriptionTier is the same comparison over FREE < PREMIUM < VIP.
RoleRankOrder ==
    /\ RankIn(RoleOrder, "GUEST") = 0 /\ RankIn(RoleOrder, "ADMIN") = 6
    /\ (answer # NULL /\ answer.fn = "hasRole") =>
          answer.value = (RankIn(RoleOrder, query.userRole)
                            >= RankIn(RoleOrder, query.requiredRole))
    /\ (answer # NULL /\ answer.fn = "hasSubscriptionTier") =>
          answer.value = (RankIn(TierOrder, query.userTier)
                            >= RankIn(TierOrder, query.requiredTier))
    /\ \A a \in UserRole : hasRole(a, a)
    /\ \A a \in UserRole : \A b \in UserRole : \A c \in UserRole :
         (hasRole(a, b) /\ hasRole(b, c)) => hasRole(a, c)
    /\ \A a \in UserRole : \A b \in UserRole :
         a # b => (hasRole(a, b) <=> ~hasRole(b, a))
    /\ \A a \in SubscriptionTier : \A b \in SubscriptionTier :
         hasSubscriptionTier(a, b) <=> RankIn(TierOrder, a) >= RankIn(TierOrder, b)

\* hasRole has answered true for a higher role and hasSubscriptionTier could
\* answer false for the tiers of the same question.
RoleRankOrderWitness ==
    /\ answer # NULL /\ answer.fn = "hasRole" /\ answer.value
    /\ query.userRole = "ADMIN" /\ query.requiredRole = "FAN"
    /\ ~hasSubscriptionTier(query.userTier, query.requiredTier)

---------------------------------------------------------------------------
(* Properties of the gates. *)

Answered(fn) == answer # NULL /\ answer.fn = fn

AtLeast(order, x, y) == RankIn(order, x) >= RankIn(order, y)

\* C21: the content gates are OR-gated on both axes.  canAccessPremiumContent
\* is true exactly when the role is at least PREMIUM_FAN or the tier at least
\* PREMIUM, canAccessVIPContent exactly when the role is at least VIP_FAN or
\* the tier is VIP; (FAN, VIP) and (VIP_FAN, FREE) pass the VIP gate and
\* (FAN, FREE) passes neither gate.
CompositeContentGates ==
    /\ Answered("canAccessPremiumContent") =>
          answer.value = (\/ AtLeast(RoleOrder, query.userRole, "PREMIUM_FAN")
                          \/ AtLeast(TierOrder, query.userTier, "PREMIUM"))
    /\ Answered("canAccessVIPContent") =>
          /\ answer.value = (\/ AtLeast(RoleOrder, query.userRole, "VIP_FAN")
                             \/ AtLeast(TierOrder, query.userTier, "VIP"))
          /\ (query.userRole = "FAN" /\ query.userTier = "VIP") => answer.value
          /\ (query.userRole = "VIP_FAN" /\ query.userTier = "FREE") => answer.value
    /\ (/\ answer # NULL
        /\ answer.fn \in {"canAccessPremiumContent", "canAccessVIPContent"}
        /\ query.userRole = "FAN" /\ query.userTier = "FREE") => ~answer.value

\* The VIP gate has passed a fan on the tier axis alone.
CompositeContentGatesWitness ==
    /\ Answered("canAccessVIPContent") /\ answer.value
    /\ query.userRole = "FAN" /\ query.userTier = "VIP"

\* The static map entry of a role, as a set.
Holds(role) == {ROLE_PERMISSIONS[role][n] : n \in 1..Len(ROLE_PERMISSIONS[role])}

\* C22: the permission combinators.  hasPermission(role, p) is true exactly
\* when p is in the map entry of role, so SYSTEM_ADMIN is held by ADMIN only
\* and READ_POSTS by every role; hasAnyPermission(role, ps) exactly when some
\* element of ps is held, hasAllPermissions(role, ps) exactly when every
\* element is; on the empty list any is false and all is true.
PermissionCombinators ==
    /\ Answered("hasPermission") =>
          /\ answer.value = (query.permission \in Holds(query.userRole))
          /\ query.permission = "SYSTEM_ADMIN" => (answer.value <=> query.userRole = "ADMIN")
          /\ query.permission = "READ_POSTS" => answer.value
    /\ Answered("hasAnyPermission") =>
          /\ answer.value = (\E p \in Holds(query.userRole) :
                               \E n \in 1..Len(query.permissions) : query.permissions[n] = p)
          /\ query.permissions = << >> => ~answer.value
    /\ Answered("hasAllPermissions") =>
          /\ answer.value = (\A n \in 1..Len(query.permissions) :
                               query.permissions[n] \in Holds(query.userRole))
          /\ query.permissions = << >> => answer.value

\* hasAnyPermission has found a held permission behind one that is not held.
PermissionCombinatorsWitness ==
    /\ Answered("hasAnyPermission") /\ answer.value
    /\ query.userRole = "FAN" /\ query.permissions = <<"SYSTEM_ADMIN", "READ_POSTS">>
    /\ ~hasAllPermissions(query.userRole, query.permissions)

\* C23: the moderation gate.  canModerate(role) is true exactly when the role
\* holds MODERATE_FORUM or MODERATE_CHAT, and it is monotone in the role
\* order: a role above one that can moderate can moderate.
ModerationGate ==
    /\ Answered("canModerate") =>
          answer.value = (\/ "MODERATE_FORUM" \in Holds(query.userRole)
                          \/ "MODERATE_CHAT" \in Holds(query.userRole))
    /\ \A r1 \in UserRole : \A r2 \in UserRole :
         (canModerate(r1) /\ RankIn(RoleOrder, r1) < RankIn(RoleOrder, r2))
            => canModerate(r2)

\* canModerate has passed a role that has roles above it.
ModerationGateWitness ==
    /\ Answered("canModerate") /\ answer.value
    /\ query.userRole = "MODERATOR"

\* C28: the permission-based gates and the role-rank gates agree for every
\* role and tier: canAccessPremium with canAccessPremiumContent, canAccessVIP
\* with canAccessVIPContent, canModerate with canModerateContent, and the two
\* canManageUsers.
GatesAgree ==
    /\ Answered("canAccessPremium") =>
          answer.value = canAccessPremiumContent(query.userRole, query.userTier)
    /\ Answered("canAccessVIP") =>
          answer.value = canAccessVIPContent(query.userRole, query.userTier)
    /\ Answered("canModerate") => answer.value = canModerateContent(query.userRole)
    /\ Answered("canManageUsers_permissions") =>
          answer.value = canManageUsers_auth(query.userRole)
    /\ Answered("canAccessPremiumContent") =>
          answer.value = canAccessPremium(query.userRole, query.userTier)
    /\ Answered("canAccessVIPContent") =>
          answer.value = canAccessVIP(query.userRole, query.userTier)
    /\ Answered("canModerateContent") => answer.value = canModerate(query.userRole)
    /\ Answered("canManageUsers_auth") =>
          answer.value = canManageUsers_permissions(query.userRole)

\* canAccessVIP has passed a fan on the VIP tier, as canAccessVIPContent does.
GatesAgreeWitness ==
    /\ Answered("canAccessVIP") /\ answer.value
    /\ query.userRole = "FAN" /\ query.userTier = "VIP"
    /\ canAccessVIPContent(query.userRole, query.userTier)

----------------------------------------------------------------------------
(* Properties across identities. *)

\* The row a pending call acts on.
Target(i) ==
    IF calls[i].kind = "logout" THEN calls[i].data.userId
    ELSE IF calls[i].kind = "register" /\ calls[i].pc = "create" THEN Len(db) + 1
    ELSE calls[i].uid

Credentials(row) ==
    <<row.refreshToken, row.passwordHash, row.role, row.subscriptionTier>>

\* C24: cross-identity independence.  A register, login, refreshToken or
\* logout call on one identity never changes the stored refresh token, the
\* password hash, the role or the tier of another identity, and a refresh
\* with a token issued to an identity returns an access token whose sub names
\* that identity.
CrossIdentityIndependence ==
    [][/\ \A k \in 1..Len(db) :
            Credentials(db'[k]) # Credentials(db[k])
               => \E i \in PendingCalls : calls'[i] # calls[i] /\ Target(i) = k
       /\ \A i \in PendingCalls :
            (calls[i].kind = "refresh" /\ calls'[i].result = "ok")
               => calls'[i].ret.accessToken.payload.sub = calls[i].data.payload.sub]_vars

\* Two identities hold sessions, the second has refreshed, and then the first
\* has logged out: the second still holds its stored token.
CrossIdentityIndependenceWitness ==
    /\ Len(db) = 2
    /\ db[1].refreshToken = NULL /\ db[2].refreshToken # NULL
    /\ \E r \in 1..Len(calls) : \E x \in 1..Len(calls) :
         /\ Ok(r) /\ calls[r].kind = "refresh" /\ calls[r].uid = 2
         /\ Ok(x) /\ calls[x].kind = "logout" /\ calls[x].data.userId = 1
         /\ r \in calls[x].doneBefore

---------------------------------------------------------------------------
(* Properties of ApiClient.request. *)

\* C25: after a 401 response whose token refresh succeeds, request sends the
\* request again, and the request sent again carries the refreshed access
\* token in its Authorization header, not the token read before the first
\* attempt.
RetryCarriesRefreshedToken ==
    (api.pc = "done" /\ api.refreshedAt > 0)
       => (api.fetches > api.refreshedAt /\ api.sent = api.refreshedTo)

\* C26: request ends after at most retries + 1 fetches, 4 with the defaults.
\* A response with a status of 400 to 499 ends the call after that attempt
\* with no further fetch; any other failure is retried until the attempts are
\* used up, and the call then throws the error of the last attempt.
RequestTerminates ==
    [][/\ api'.pc # "idle" => api'.fetches <= api'.options.retries + 1
       /\ (api.clientErrorAt > 0 /\ api'.pc # "idle") => api'.fetches = api.fetches
       /\ (/\ api.pc # "done" /\ api'.pc = "done" /\ api'.result = "err"
           /\ api'.clientErrorAt = 0)
             => api'.fetches = api'.options.retries + 1]_vars

---------------------------------------------------------------------------
(* Properties of the notification store. *)

Unread ==
    {n \in 1..Len(notificationStore.notifications) :
       ~notificationStore.notifications[n].isRead}

\* C29: after any sequence of addNotification, markAsRead, markAllAsRead and
\* removeNotification, markAsRead on a read or unknown id included,
\* unreadCount is the number of notifications whose isRead is false, and it
\* is never negative.
UnreadCountIsExact ==
    /\ notificationStore.unreadCount = Cardinality(Unread)
    /\ notificationStore.unreadCount >= 0

---------------------------------------------------------------------------
(* Properties of the user store. *)

\* No call is in flight and the store is not loading.
UserStoreSettled == userOps = EmptyBag /\ ~userStore.isLoading

\* C30: every call of updateProfile, updatePreferences and getUserStatistics
\* eventually finishes with isLoading = false, whatever the state of the
\* store at the call, currentUser = null included.
CallsFinishNotLoading ==
    /\ [][\A o \in UserOpsInFlight :
            (userOps' = userOps (-) SetToBag({o})) => ~userStore'.isLoading]_vars
    /\ [](userOps # EmptyBag => <>(userOps = EmptyBag))

====
